---------------------------- MODULE Spec2Model ----------------------------
(***************************************************************************)
(* A model of the TinySCM Scheme interpreter: the value universe and the   *)
(* environment chain of internal_ds.py, and the eval/apply cycle of        *)
(* eval_apply.py run as a machine over an explicit host call stack.        *)
(***************************************************************************)
EXTENDS Integers, Sequences, FiniteSets, TLC

VARIABLES
    frames,     \* the heap of Frame objects: frame id -> bindings
    envs,       \* SpecEnv: the environments built so far
    last,       \* SpecEnv: the Environment method called last
    nin,        \* operations applied (SpecEnv) or inputs read (SpecEval)
    stack,      \* the host call stack of the evaluator, innermost call last
    ret,        \* the value returned by the host call that finished last
    retFrom,    \* which host call returned `ret`
    status,     \* "idle" between top-level expressions, else "running"
    out,        \* one record per top-level expression read, with its outcome
    scen,       \* the session being run (SpecEval)
    infile_lines,   \* SpecRepl: the lines of the loaded file not yet read
    current_line,   \* SpecRepl: the tokens the parser holds (current_line)
    stream,     \* SpecRepl: the state of the generator made by read_input
    printed,    \* SpecRepl: the lines printed so far
    mode,       \* SpecRepl: the arguments read_eval_print_loop was given
    loop        \* SpecRepl: whether the loop runs, has returned or raised

evalVars == <<stack, ret, retFrom, status, out, scen>>
replVars == <<infile_lines, current_line, stream, printed, mode, loop>>
vars ==
    <<frames, envs, last, nin, stack, ret, retFrom, status, out, scen,
      replVars>>

(***************************************************************************)
(* Bounds of the model.                                                    *)
(***************************************************************************)
MaxFrames == 3
MaxOps == 3
MaxInputs == 2
MaxN == 3
MaxArgs == 3
MaxLines == 3
MaxChars == 4
MaxDigits == 3
MaxNest == 3
MaxClauses == 2
MaxDepth == 32

(***************************************************************************)
(* Scheme values (internal_ds.py, module docstring): every value is a      *)
(* tuple whose first element is its variant tag.                           *)
(***************************************************************************)
nil == <<"nil">>
None == <<"none">>
Integer(i) == <<"int", i>>
\* A float with the value m / 10^d, with no trailing zero counted in d; the
\* two float zeros, which Python holds equal, are one value.
RECURSIVE Real(_, _)
Real(m, d) ==
    IF d > 0 /\ m % 10 = 0 THEN Real(m \div 10, d - 1) ELSE <<"real", m, d>>
Bool(b) == <<"bool", b>>
Sym(s) == <<"sym", s>>
Str(s) == <<"str", s>>
Pair(first, rest) == <<"pair", first, rest>>
LambdaProcedure(parameters, body, env) == <<"lambda", parameters, body, env>>
DLambdaProcedure(parameters, body) == <<"dlambda", parameters, body>>
PrimitiveProcedure(name) == <<"prim", name>>
TailPromise(expr, env) == <<"tailpromise", expr, env>>

Tag(v) == v[1]
is_scheme_pair(x) == Tag(x) = "pair"
is_scheme_null(x) == Tag(x) = "nil"
is_scheme_boolean(x) == Tag(x) = "bool"
is_scheme_number(x) == Tag(x) \in {"int", "real"}
is_scheme_string(x) == Tag(x) = "str"
is_scheme_symbol(x) == Tag(x) = "sym"
IsTailPromise(x) == Tag(x) = "tailpromise"
IsProcedure(x) == Tag(x) \in {"prim", "lambda", "dlambda", "macro"}

scheme_cons(x, y) == Pair(x, y)

RECURSIVE scheme_list(_)
scheme_list(vals) ==
    IF vals = <<>> THEN nil ELSE Pair(Head(vals), scheme_list(Tail(vals)))

RECURSIVE is_scheme_list(_)
is_scheme_list(x) ==
    IF is_scheme_null(x) THEN TRUE
    ELSE IF ~is_scheme_pair(x) THEN FALSE
    ELSE is_scheme_list(x[3])

\* Pair.__len__ / nil.__len__: -1 stands for the TypeError of an improper list.
RECURSIVE PairLen(_)
PairLen(x) ==
    IF is_scheme_null(x) THEN 0
    ELSE IF ~is_scheme_pair(x) THEN -1
    ELSE LET n == PairLen(x[3]) IN IF n < 0 THEN -1 ELSE n + 1

(***************************************************************************)
(* Outcomes of a host call: a returned value or a raised exception.        *)
(***************************************************************************)
Ok(v) == [kind |-> "ok", val |-> v]
Raise(exc, msg) == [kind |-> "raise", exc |-> exc, msg |-> msg]
IsOk(r) == r.kind = "ok"

(***************************************************************************)
(* Frames and environments.  The heap `frames` holds one bindings map per  *)
(* Frame object; an environment is its chain of frame ids, youngest first. *)
(***************************************************************************)
EmptyBindings == [v \in {} |-> None]

add_binding(bindings, var, val) == (var :> val) @@ bindings

set_var(bindings, var, val) == add_binding(bindings, var, val)

DefineInOldest(fr, env, var, val) ==
    [fr EXCEPT ![env[Len(env)]] = add_binding(fr[env[Len(env)]], var, val)]

define_variable(fr, env, var, val) ==
    [fr EXCEPT ![Head(env)] = add_binding(fr[Head(env)], var, val)]

RECURSIVE LookupOldestWins(_, _, _)
LookupOldestWins(fr, env, var) ==
    IF env = <<>> THEN Raise("SchemeError", "Unbound variable")
    ELSE IF var \in DOMAIN fr[env[Len(env)]] THEN Ok(fr[env[Len(env)]][var])
    ELSE LookupOldestWins(fr, SubSeq(env, 1, Len(env) - 1), var)

RECURSIVE lookup_variable_value(_, _, _)
lookup_variable_value(fr, env, var) ==
    IF env = <<>> THEN Raise("SchemeError", "Unbound variable")
    ELSE IF var \in DOMAIN fr[Head(env)] THEN Ok(fr[Head(env)][var])
    ELSE lookup_variable_value(fr, Tail(env), var)

\* The outcome of set! carries the heap after the call.
SetOk(fr) == [kind |-> "ok", val |-> None, frames |-> fr]

SetDefinesWhenUnbound(fr, env, var, val) ==
    IF \E i \in 1..Len(env) : var \in DOMAIN fr[env[i]]
    THEN LET i == CHOOSE j \in 1..Len(env) :
                    /\ var \in DOMAIN fr[env[j]]
                    /\ \A k \in 1..(j - 1) : var \notin DOMAIN fr[env[k]]
         IN SetOk([fr EXCEPT ![env[i]] = set_var(fr[env[i]], var, val)])
    ELSE SetOk([fr EXCEPT ![Head(env)] = set_var(fr[Head(env)], var, val)])

SetInYoungest(fr, env, var, val) ==
    IF \E i \in 1..Len(env) : var \in DOMAIN fr[env[i]]
    THEN SetOk([fr EXCEPT ![Head(env)] = set_var(fr[Head(env)], var, val)])
    ELSE Raise("SchemeError", "Unbound variable")

RECURSIVE set_variable_value(_, _, _, _)
set_variable_value(fr, env, var, val) ==
    IF env = <<>> THEN Raise("SchemeError", "Unbound variable")
    ELSE IF var \in DOMAIN fr[Head(env)]
         THEN SetOk([fr EXCEPT ![Head(env)] = set_var(fr[Head(env)], var, val)])
    ELSE set_variable_value(fr, Tail(env), var, val)

\* A symbol is the key of its binding; no other value is ever a key.
Key(v) == IF is_scheme_symbol(v) THEN v[2] ELSE "#non-symbol"

RECURSIVE make_frame(_, _, _)
make_frame(bindings, vs, vals) ==
    IF is_scheme_pair(vs)
    THEN make_frame(add_binding(bindings, Key(vs[2]), vals[2]), vs[3], vals[3])
    ELSE bindings

ExtendOk(fr, env) == [kind |-> "ok", frames |-> fr, env |-> env]

ExtendNoArityCheck(fr, env, vs, vals) ==
    IF PairLen(vs) < 0 \/ PairLen(vals) < 0
    THEN Raise("TypeError", "length attempted on improper list")
    ELSE IF PairLen(vs) <= PairLen(vals)
    THEN ExtendOk(Append(fr, make_frame(EmptyBindings, vs, vals)),
                  <<Len(fr) + 1>> \o env)
    ELSE Raise("SchemeError", "Too few arguemtns supplied")

extend_environment(fr, env, vs, vals) ==
    IF PairLen(vs) < 0 \/ PairLen(vals) < 0
    THEN Raise("TypeError", "length attempted on improper list")
    ELSE IF PairLen(vs) = PairLen(vals)
    THEN ExtendOk(Append(fr, make_frame(EmptyBindings, vs, vals)),
                  <<Len(fr) + 1>> \o env)
    ELSE IF PairLen(vs) < PairLen(vals)
    THEN Raise("SchemeError", "Too many arguemtns supplied")
    ELSE Raise("SchemeError", "Too few arguemtns supplied")


(***************************************************************************)
(* SpecEnv: the four Environment operations applied, in any order, to the  *)
(* environments of one heap.  `last` records the operation just performed, *)
(* the heap before it and its outcome.                                     *)
(***************************************************************************)
EnvVars == {"x", "y"}
EnvVals == {Integer(1), Integer(2)}
EnvParamLists ==
    {nil, scheme_list(<<Sym("x")>>), scheme_list(<<Sym("y")>>),
     scheme_list(<<Sym("x"), Sym("y")>>)}
EnvArgLists ==
    {nil, scheme_list(<<Integer(1)>>), scheme_list(<<Integer(2)>>),
     scheme_list(<<Integer(1), Integer(2)>>)}

NoOp ==
    [op |-> "none", env |-> <<>>, var |-> "", val |-> None, vs |-> nil,
     vals |-> nil, res |-> Ok(None)]

NoCall == [fn |-> "", tail |-> FALSE]

\* No evaluation is in progress.
EvalIdle ==
    /\ stack = <<>>
    /\ ret = None
    /\ retFrom = NoCall
    /\ status = "idle"
    /\ out = <<>>
    /\ nin = 0
    /\ scen = "env"

\* read_eval_print_loop has not been called.
NoMode == [report_errors |-> FALSE, quiet |-> FALSE, print_ast |-> FALSE]
ReplIdle ==
    /\ infile_lines = <<>>
    /\ current_line = <<>>
    /\ stream = "new"
    /\ printed = <<>>
    /\ mode = NoMode
    /\ loop = "none"

\* The global frame binds names before any operation runs (setup_environment).
InitEnv ==
    /\ frames = <<("x" :> Integer(1))>>
    /\ envs = {<<1>>}
    /\ last = NoOp
    /\ EvalIdle
    /\ ReplIdle

EnvDefine ==
    /\ nin < MaxOps
    /\ nin' = nin + 1
    /\ \E env \in envs, var \in EnvVars, val \in EnvVals :
        /\ frames' = define_variable(frames, env, var, val)
        /\ last' = [NoOp EXCEPT !.op = "define", !.env = env, !.var = var,
                                !.val = val]
        /\ UNCHANGED <<envs, evalVars, replVars>>

EnvSet ==
    /\ nin < MaxOps
    /\ nin' = nin + 1
    /\ \E env \in envs, var \in EnvVars, val \in EnvVals :
        LET r == set_variable_value(frames, env, var, val) IN
        /\ frames' = IF IsOk(r) THEN r.frames ELSE frames
        /\ last' = [NoOp EXCEPT !.op = "set", !.env = env, !.var = var,
                                !.val = val,
                                !.res = IF IsOk(r) THEN Ok(None) ELSE r]
        /\ UNCHANGED <<envs, evalVars, replVars>>

EnvLookup ==
    /\ nin < MaxOps
    /\ nin' = nin + 1
    /\ \E env \in envs, var \in EnvVars :
        /\ last' = [NoOp EXCEPT !.op = "lookup", !.env = env, !.var = var,
                                !.res = lookup_variable_value(frames, env, var)]
        /\ UNCHANGED <<frames, envs, evalVars, replVars>>

EnvExtend ==
    /\ nin < MaxOps
    /\ nin' = nin + 1
    /\ \E env \in envs, vs \in EnvParamLists, vals \in EnvArgLists :
        LET r == extend_environment(frames, env, vs, vals) IN
        /\ IsOk(r) => Len(frames) < MaxFrames
        /\ frames' = IF IsOk(r) THEN r.frames ELSE frames
        /\ envs' = IF IsOk(r) THEN envs \cup {r.env} ELSE envs
        /\ last' = [NoOp EXCEPT !.op = "extend", !.env = env, !.vs = vs,
                                !.vals = vals,
                                !.res = IF IsOk(r) THEN Ok(None) ELSE r]
        /\ UNCHANGED <<evalVars, replVars>>

NextEnv == EnvDefine \/ EnvSet \/ EnvLookup \/ EnvExtend

SpecEnv == InitEnv /\ [][NextEnv]_vars

\* The position in `env` of the youngest frame of heap `fr` that binds `var`
\* (0 when no frame of the chain binds it).
Youngest(fr, env, var) ==
    IF \E i \in 1..Len(env) : var \in DOMAIN fr[env[i]]
    THEN CHOOSE i \in 1..Len(env) :
            /\ var \in DOMAIN fr[env[i]]
            /\ \A k \in 1..(i - 1) : var \notin DOMAIN fr[env[k]]
    ELSE 0

\* C6: lookup returns the binding of the youngest frame that contains var,
\* whatever older frames bind; if no frame contains var it raises
\* SchemeError 'Unbound variable', and no frame changes.
C6_LookupYoungestWins ==
    [][last'.op = "lookup" =>
        LET y == Youngest(frames, last'.env, last'.var) IN
        /\ frames' = frames
        /\ y > 0 => last'.res = Ok(frames[last'.env[y]][last'.var])
        /\ y = 0 => /\ last'.res.kind = "raise"
                    /\ last'.res.exc = "SchemeError"
                    /\ last'.res.msg = "Unbound variable"]_vars

\* A lookup of a variable that a younger and an older frame bind differently.
C6_Witness ==
    /\ last.op = "lookup"
    /\ Len(last.env) >= 2
    /\ last.var \in DOMAIN frames[last.env[1]]
    /\ last.var \in DOMAIN frames[last.env[2]]
    /\ frames[last.env[1]][last.var] # frames[last.env[2]][last.var]
    /\ IsOk(last.res)

\* C7: define binds var to val in the youngest frame only, overwriting a
\* binding of var there; every other frame and every other name of the
\* youngest frame is unchanged, also when an older frame binds var.
C7_DefineYoungestOnly ==
    [][last'.op = "define" =>
        LET h == Head(last'.env) IN
        /\ Len(frames') = Len(frames)
        /\ last'.var \in DOMAIN frames'[h]
        /\ frames'[h][last'.var] = last'.val
        /\ DOMAIN frames'[h] = DOMAIN frames[h] \cup {last'.var}
        /\ \A w \in DOMAIN frames[h] :
              w # last'.var => frames'[h][w] = frames[h][w]
        /\ \A f \in 1..Len(frames) : f # h => frames'[f] = frames[f]]_vars

\* After a define in a chain of two frames, the older frame binds the same
\* name to another value and the youngest frame binds another name too.
C7_Witness ==
    /\ last.op = "define"
    /\ Len(last.env) >= 2
    /\ last.var \in DOMAIN frames[last.env[2]]
    /\ frames[last.env[2]][last.var] # last.val
    /\ frames[last.env[1]][last.var] = last.val
    /\ DOMAIN frames[last.env[1]] # {last.var}

RECURSIVE Flatten(_)
Flatten(x) == IF is_scheme_pair(x) THEN <<x[2]>> \o Flatten(x[3]) ELSE <<>>

\* C9: extend with as many arguments as parameters returns a new environment
\* whose youngest frame is new and binds exactly the parameters to the
\* arguments position by position, whose other frames are the frames of the
\* original chain, and leaves every existing frame unchanged; with more or
\* fewer arguments it raises a SchemeError and creates no environment.
C9_ExtendBindsPositionally ==
    [][last'.op = "extend" =>
        LET ps == Flatten(last'.vs)
            as == Flatten(last'.vals)
            n == Len(frames) + 1
        IN
        /\ Len(ps) = Len(as) =>
              /\ IsOk(last'.res)
              /\ Len(frames') = n
              /\ envs' = envs \cup {<<n>> \o last'.env}
              /\ DOMAIN frames'[n] = {Key(ps[i]) : i \in 1..Len(ps)}
              /\ \A i \in 1..Len(ps) : frames'[n][Key(ps[i])] = as[i]
              /\ \A f \in 1..Len(frames) : frames'[f] = frames[f]
        /\ Len(ps) # Len(as) =>
              /\ last'.res.kind = "raise"
              /\ last'.res.exc = "SchemeError"
              /\ frames' = frames
              /\ envs' = envs]_vars

\* An extension of a chain of two frames by a frame of two parameters.
C9_Witness ==
    /\ last.op = "extend"
    /\ IsOk(last.res)
    /\ Len(last.env) >= 2
    /\ PairLen(last.vs) = 2
    /\ DOMAIN frames[Len(frames)] = {"x", "y"}


(***************************************************************************)
(* The evaluator (eval_apply.py).  Every host function is run as call      *)
(* records on `stack`: a record holds the function, the place reached in   *)
(* its body (pc), its arguments (expr, env, tail, x) and locals (x, y).    *)
(* A function that calls another is resumed at its new pc with the         *)
(* callee's value in `ret`.                                                *)
(***************************************************************************)
Promise(expr, env) == <<"promise", expr, env>>
NeverMacro(x) == FALSE
IsMacro(x) == Tag(x) = "macro"
is_primitive_procedure(x) == Tag(x) = "prim"
is_scheme_promise(x) == Tag(x) \in {"promise", "tailpromise"}

PythonTruth(val) == val \notin {Bool(FALSE), Integer(0), nil, None}

is_scheme_true(val) == val # Bool(FALSE)
is_scheme_false(val) == val = Bool(FALSE)

is_self_evaluating(expr) ==
    \/ is_scheme_boolean(expr)
    \/ is_scheme_number(expr)
    \/ is_scheme_null(expr)
    \/ is_scheme_string(expr)
    \/ expr = None

is_scheme_variable(x) == is_scheme_symbol(x)

NoMax == -1

validate_form(expr, min, max) ==
    IF ~is_scheme_list(expr)
    THEN Raise("SchemeError", "badly formed expression")
    ELSE IF PairLen(expr) < min
    THEN Raise("SchemeError", "too few operands in form")
    ELSE IF max # NoMax /\ PairLen(expr) > max
    THEN Raise("SchemeError", "too many operands in form")
    ELSE Ok(None)

RECURSIVE validate_and_add(_, _)
validate_and_add(parameters, symbols) ==
    IF ~is_scheme_pair(parameters) THEN Ok(None)
    ELSE IF ~is_scheme_symbol(parameters[2])
    THEN Raise("SchemeError", "non-symbol")
    ELSE IF parameters[2][2] \in symbols
    THEN Raise("SchemeError", "duplicate symbol")
    ELSE validate_and_add(parameters[3], symbols \cup {parameters[2][2]})

validate_parameters(parameters) == validate_and_add(parameters, {})

make_lambda(parameters, body) ==
    scheme_cons(Sym("lambda"), scheme_cons(parameters, body))

SPECIAL_FORMS ==
    ("if" :> "eval_if") @@ ("cond" :> "eval_cond") @@ ("and" :> "eval_and")
    @@ ("or" :> "eval_or") @@ ("begin" :> "eval_begin")
    @@ ("let" :> "eval_let") @@ ("set!" :> "eval_assignment")
    @@ ("define" :> "eval_definition") @@ ("lambda" :> "eval_lambda")
    @@ ("quote" :> "eval_quote") @@ ("unquote" :> "eval_unquote")
    @@ ("quasiquote" :> "eval_quasiquote")
    @@ ("dlambda" :> "eval_dlambda_form")
    @@ ("define-macro" :> "eval_macro_definition")
    @@ ("delay" :> "eval_delay") @@ ("cons-stream" :> "eval_cons_stream")

\* A call record, at the start of the function's body.
Rec(fn, expr, env, tail, x) ==
    [fn |-> fn, pc |-> 0, expr |-> expr, env |-> env, tail |-> tail,
     x |-> x, y |-> None]

\* What one step of a host function does: call another function and resume
\* at `pc`, return a value, or raise an exception; `fr` is the heap after it.
\* The host raises RecursionError on a call MaxDepth calls deep.
Call(t, pc, callee, fr) ==
    [act |-> "call", pc |-> pc, x |-> t.x, y |-> t.y, callee |-> callee,
     val |-> None, exc |-> "", msg |-> "", fr |-> fr]
CallX(t, pc, x, callee, fr) == [Call(t, pc, callee, fr) EXCEPT !.x = x]
CallY(t, pc, y, callee, fr) == [Call(t, pc, callee, fr) EXCEPT !.y = y]
Return(val, fr) ==
    [act |-> "return", pc |-> 0, x |-> None, y |-> None, callee |-> None,
     val |-> val, exc |-> "", msg |-> "", fr |-> fr]
Throw(r, fr) ==
    [act |-> "raise", pc |-> 0, x |-> None, y |-> None, callee |-> None,
     val |-> None, exc |-> r.exc, msg |-> r.msg, fr |-> fr]

Top == stack[Len(stack)]

Running(fn) == status = "running" /\ stack # <<>> /\ Top.fn = fn
RunningIn(fns) == status = "running" /\ stack # <<>> /\ Top.fn \in fns

\* PrimitiveProcedure.apply turns a TypeError raised while its function
\* runs into a SchemeError; no other handler exists below the top level.
Caught(e) ==
    IF /\ e.exc = "TypeError"
       /\ \E i \in 1..Len(stack) : stack[i].fn = "PrimitiveProcedure_apply"
    THEN Raise("SchemeError", "Incorrect number of arguments")
    ELSE Raise(e.exc, e.msg)

Finish(kind, val) ==
    /\ stack' = <<>>
    /\ ret' = None
    /\ retFrom' = NoCall
    /\ status' = "idle"
    /\ out' = [out EXCEPT ![Len(out)] = [@ EXCEPT !.kind = kind, !.val = val]]

Do(e) ==
    /\ frames' = e.fr
    /\ UNCHANGED <<envs, last, nin, scen, replVars>>
    /\ CASE e.act = "call" /\ Len(stack) >= MaxDepth ->
              Finish("error", <<"exception", "RecursionError",
                                "maximum recursion depth exceeded">>)
         [] e.act = "call" /\ Len(stack) < MaxDepth ->
              /\ stack' = Append([stack EXCEPT ![Len(stack)] =
                                     [@ EXCEPT !.pc = e.pc, !.x = e.x,
                                               !.y = e.y]], e.callee)
              /\ ret' = None
              /\ retFrom' = NoCall
              /\ UNCHANGED <<status, out>>
         [] e.act = "return" /\ Len(stack) > 1 ->
              /\ stack' = SubSeq(stack, 1, Len(stack) - 1)
              /\ ret' = e.val
              /\ retFrom' = [fn |-> Top.fn, tail |-> Top.tail]
              /\ UNCHANGED <<status, out>>
         [] e.act = "return" /\ Len(stack) = 1 -> Finish("value", e.val)
         [] e.act = "raise" ->
              Finish("error", <<"exception", Caught(e).exc, Caught(e).msg>>)

(***************************************************************************)
(* Eval/Apply                                                              *)
(***************************************************************************)
NeverDeferred(expr, tail) == FALSE

\* optimized_eval: whether the expression is handed back as a TailPromise.
DefersTailCall(expr, tail) ==
    tail /\ ~is_scheme_variable(expr) /\ ~is_self_evaluating(expr)

\* optimized_eval, bound to the name scheme_eval.
scheme_eval ==
    /\ Running("scheme_eval")
    /\ LET t == Top IN
       Do(CASE t.pc = 0 /\ DefersTailCall(t.expr, t.tail) ->
                 Return(TailPromise(t.expr, t.env), frames)
            [] t.pc = 0 /\ ~DefersTailCall(t.expr, t.tail) ->
                 Call(t, 1, Rec("original_scheme_eval", t.expr, t.env,
                                FALSE, None), frames)
            [] t.pc = 1 /\ IsTailPromise(ret) ->
                 Call(t, 1, Rec("original_scheme_eval", ret[2], ret[3],
                                FALSE, None), frames)
            [] t.pc = 1 /\ ~IsTailPromise(ret) -> Return(ret, frames))

\* The scheme_eval of lines 21-52, before optimize_tail_calls wraps it.
original_scheme_eval ==
    /\ Running("original_scheme_eval")
    /\ LET t == Top
           first == t.expr[2]
           rest == t.expr[3]
       IN
       Do(CASE t.pc = 0 /\ is_self_evaluating(t.expr) ->
                 Return(t.expr, frames)
            [] t.pc = 0 /\ is_scheme_variable(t.expr) ->
                 LET r == lookup_variable_value(frames, t.env, t.expr[2]) IN
                 IF IsOk(r) THEN Return(r.val, frames) ELSE Throw(r, frames)
            [] t.pc = 0 /\ ~is_self_evaluating(t.expr)
                        /\ ~is_scheme_variable(t.expr)
                        /\ ~is_scheme_pair(t.expr) ->
                 Throw(Raise("SchemeError", "Unknown expression type"),
                       frames)
            [] t.pc = 0 /\ is_scheme_pair(t.expr) ->
                 IF is_scheme_symbol(first) /\ first[2] \in DOMAIN SPECIAL_FORMS
                 THEN Call(t, 9, Rec(SPECIAL_FORMS[first[2]], rest, t.env,
                                     TRUE, None), frames)
                 ELSE Call(t, 1, Rec("scheme_eval", first, t.env, FALSE,
                                     None), frames)
            [] t.pc = 1 /\ IsMacro(ret) ->
                 Call(t, 2, Rec("complete_apply", ret, t.env, FALSE, rest),
                      frames)
            [] t.pc = 1 /\ ~IsMacro(ret) ->
                 IF is_scheme_null(rest)
                 THEN Call(t, 9, Rec("scheme_apply", ret, t.env, FALSE, nil),
                           frames)
                 ELSE IF is_scheme_pair(rest)
                 THEN CallX(t, 4, ret, Rec("Pair_map", rest, t.env, FALSE,
                                           None), frames)
                 ELSE Throw(Raise("AttributeError", "map"), frames)
            [] t.pc = 2 ->
                 Call(t, 9, Rec("scheme_eval", ret, t.env, FALSE, None),
                      frames)
            [] t.pc = 4 ->
                 Call(t, 9, Rec("scheme_apply", t.x, t.env, FALSE, ret),
                      frames)
            [] t.pc = 9 -> Return(ret, frames))

Pair_mapRestFirst ==
    /\ Running("Pair_map")
    /\ LET t == Top IN
       Do(CASE t.pc = 0 /\ is_scheme_pair(t.expr[3]) ->
                 Call(t, 1, Rec("Pair_map", t.expr[3], t.env, FALSE, None),
                      frames)
            [] t.pc = 0 /\ ~is_scheme_pair(t.expr[3]) ->
                 CallX(t, 2, nil, Rec("scheme_eval", t.expr[2], t.env, FALSE,
                                      None), frames)
            [] t.pc = 1 ->
                 CallX(t, 2, ret, Rec("scheme_eval", t.expr[2], t.env, FALSE,
                                      None), frames)
            [] t.pc = 2 -> Return(Pair(ret, t.x), frames))

\* Pair.map.  The function mapped is that of eval_apply.py line 51,
\* lambda x: scheme_eval(x, env), or when y holds a depth that of line 472,
\* lambda elem: quasiquote_item(elem, env, depth).
Pair_map ==
    /\ Running("Pair_map")
    /\ LET t == Top IN
       Do(CASE t.pc = 0 /\ t.y = None ->
                 Call(t, 1, Rec("scheme_eval", t.expr[2], t.env, FALSE, None),
                      frames)
            [] t.pc = 0 /\ t.y # None ->
                 Call(t, 1, Rec("quasiquote_item", t.expr[2], t.env, FALSE,
                                t.y), frames)
            [] t.pc = 1 /\ is_scheme_null(t.expr[3]) ->
                 Return(Pair(ret, nil), frames)
            [] t.pc = 1 /\ is_scheme_pair(t.expr[3]) ->
                 CallX(t, 2, ret, [Rec("Pair_map", t.expr[3], t.env, FALSE,
                                       None) EXCEPT !.y = t.y], frames)
            [] t.pc = 1 /\ ~is_scheme_null(t.expr[3])
                        /\ ~is_scheme_pair(t.expr[3]) ->
                 Throw(Raise("TypeError", "ill-formed list"), frames)
            [] t.pc = 2 -> Return(Pair(t.x, ret), frames))

CallerEnvForLambda(fr, procedure, arguments, env) ==
    extend_environment(fr, env, procedure[2], arguments)

\* LambdaProcedure.make_call_frame (MacroProcedure inherits it).
Lambda_make_call_frame(fr, procedure, arguments, env) ==
    extend_environment(fr, procedure[4], procedure[2], arguments)

GlobalEnvForDLambda(fr, procedure, arguments, env) ==
    extend_environment(fr, <<1>>, procedure[2], arguments)

\* DLambdaProcedure.make_call_frame.
DLambda_make_call_frame(fr, procedure, arguments, env) ==
    extend_environment(fr, env, procedure[2], arguments)

make_call_frame(fr, procedure, arguments, env) ==
    IF Tag(procedure) = "dlambda"
    THEN DLambda_make_call_frame(fr, procedure, arguments, env)
    ELSE Lambda_make_call_frame(fr, procedure, arguments, env)

scheme_apply ==
    /\ Running("scheme_apply")
    /\ LET t == Top IN
       Do(CASE t.pc = 0 /\ ~IsProcedure(t.expr) ->
                 Throw(Raise("SchemeError", "is not callable"), frames)
            [] t.pc = 0 /\ is_primitive_procedure(t.expr) ->
                 Call(t, 9, Rec("PrimitiveProcedure_apply", t.expr, t.env,
                                FALSE, t.x), frames)
            [] t.pc = 0 /\ IsProcedure(t.expr)
                        /\ ~is_primitive_procedure(t.expr) ->
                 LET r == make_call_frame(frames, t.expr, t.x, t.env) IN
                 IF IsOk(r)
                 THEN Call(t, 9, Rec("eval_sequence", t.expr[3], r.env, TRUE,
                                     None), r.frames)
                 ELSE Throw(r, frames)
            [] t.pc = 9 -> Return(ret, frames))


(***************************************************************************)
(* Primitive procedures (primitive_procs.py)                               *)
(***************************************************************************)
\* Python numbers: the float or int with the value m / 10^d (d = 0 for an
\* int), its number of decimals and its value in units of 10^-d.
Number(float, m, d) == IF float THEN Real(m, d) ELSE Integer(m)
IsFloat(x) == Tag(x) = "real"
Scale(x) == IF IsFloat(x) THEN x[3] ELSE 0
RECURSIVE Pow10(_)
Pow10(d) == IF d = 0 THEN 1 ELSE 10 * Pow10(d - 1)
Mant(x, d) == x[2] * Pow10(d - Scale(x))
Abs(n) == IF n < 0 THEN 0 - n ELSE n
RECURSIVE Power(_, _)
Power(b, n) == IF n = 0 THEN 1 ELSE b * Power(b, n - 1)
Max(a, b) == IF a < b THEN b ELSE a
FloorDiv(a, b) == IF b < 0 THEN (0 - a) \div (0 - b) ELSE a \div b

\* p / q is a decimal of at most MaxDigits decimals.
Terminates(p, q) ==
    \E k \in 0..MaxDigits : (Abs(p) * Pow10(k)) % Abs(q) = 0

\* x fn y for Python's +, -, *, /, // and % on numbers, y not zero for the
\* last three: the result is a float if an operand is, and / always gives a
\* float.  The operations are exact on the numbers modelled: operands with
\* a finite binary expansion and a quotient of at most MaxDigits decimals.
PyOp(fn, x, y) ==
    LET d == Max(Scale(x), Scale(y))
        p == Mant(x, d)
        q == Mant(y, d)
        float == IsFloat(x) \/ IsFloat(y)
    IN  CASE fn = "add" -> Number(float, p + q, d)
          [] fn = "sub" -> Number(float, p - q, d)
          [] fn = "mul" -> Number(float, x[2] * y[2], Scale(x) + Scale(y))
          [] fn = "truediv" ->
                LET k == CHOOSE k \in 0..MaxDigits :
                            (Abs(p) * Pow10(k)) % Abs(q) = 0
                IN  Real((IF (p < 0) = (q < 0) THEN 1 ELSE -1)
                         * ((Abs(p) * Pow10(k)) \div Abs(q)), k)
          [] fn = "floordiv" -> Number(float, FloorDiv(p, q), 0)
          [] fn = "mod" -> Number(float, p - (q * FloorDiv(p, q)), d)

\* -x of a number
Neg(x) == Number(IsFloat(x), 0 - x[2], Scale(x))

_ensure_int(x) == IF IsFloat(x) /\ x[3] = 0 THEN Integer(x[2]) ELSE x

\* _check_nums
AllNumbers(args) == \A i \in 1..Len(args) : is_scheme_number(args[i])

NotNumber == Raise("SchemeError", "operand is not a number")
WrongArity == Raise("TypeError", "wrong number of arguments")
WrongType == Raise("SchemeError", "argument has wrong type")

\* The loop of _arith.
RECURSIVE ArithLoop(_, _, _)
ArithLoop(fn, s, vals) ==
    IF vals = <<>> THEN s
    ELSE ArithLoop(fn, PyOp(fn, s, Head(vals)), Tail(vals))

_arith(fn, init, vals) ==
    IF ~AllNumbers(vals) THEN NotNumber
    ELSE Ok(_ensure_int(ArithLoop(fn, init, vals)))

scheme_add(args) == _arith("add", Integer(0), args)

scheme_sub(args) ==
    IF Len(args) = 0 THEN WrongArity
    ELSE IF ~AllNumbers(args) THEN NotNumber
    ELSE IF Len(args) = 1 THEN Ok(_ensure_int(Neg(args[1])))
    ELSE _arith("sub", args[1], Tail(args))

scheme_mul(args) == _arith("mul", Integer(1), args)

\* Python's ZeroDivisionError, whose message names the operation.
ZeroDivision(exc) == Raise(exc, "division by zero")
IsZero(x) == x[2] = 0

scheme_div(args) ==
    IF Len(args) = 0 THEN WrongArity
    ELSE IF ~AllNumbers(args) THEN NotNumber
    ELSE IF Len(args) = 1
    THEN IF IsZero(args[1]) THEN ZeroDivision("SchemeError")
         ELSE Ok(_ensure_int(PyOp("truediv", Integer(1), args[1])))
    ELSE IF \E i \in 2..Len(args) : IsZero(args[i])
    THEN ZeroDivision("SchemeError")
    ELSE _arith("truediv", args[1], Tail(args))

\* abs(val0): Python's abs takes a bool as the int 1 or 0.
scheme_abs(args) ==
    IF Len(args) # 1 THEN WrongArity
    ELSE IF is_scheme_number(args[1])
    THEN Ok(Number(IsFloat(args[1]), Abs(args[1][2]), Scale(args[1])))
    ELSE IF is_scheme_boolean(args[1])
    THEN Ok(Integer(IF args[1][2] THEN 1 ELSE 0))
    ELSE Raise("TypeError", "bad operand type for abs()")

\* pow(val0, val1) for an exponent with an integral value n: an int for
\* ints and n >= 0, else a float; 0 to a negative power raises
\* ZeroDivisionError, which scheme_expt does not catch.
scheme_expt(args) ==
    IF Len(args) # 2 THEN WrongArity
    ELSE IF ~AllNumbers(args) THEN NotNumber
    ELSE LET x == args[1]
             n == _ensure_int(args[2])[2]
             float == IsFloat(x) \/ IsFloat(args[2]) \/ n < 0
             power == Number(float, Power(x[2], Abs(n)), Scale(x) * Abs(n))
         IN  IF n >= 0 THEN Ok(power)
             ELSE IF IsZero(x) THEN ZeroDivision("ZeroDivisionError")
             ELSE Ok(PyOp("truediv", Integer(1), power))

scheme_modulo(args) ==
    IF Len(args) # 2 THEN WrongArity
    ELSE IF ~AllNumbers(args) THEN NotNumber
    ELSE IF IsZero(args[2]) THEN ZeroDivision("SchemeError")
    ELSE Ok(PyOp("mod", args[1], args[2]))

scheme_quo(args) ==
    IF Len(args) # 2 THEN WrongArity
    ELSE IF ~AllNumbers(args) THEN NotNumber
    ELSE IF IsZero(args[2]) THEN ZeroDivision("SchemeError")
    ELSE IF (args[1][2] < 0) # (args[2][2] < 0)
    THEN Ok(Neg(PyOp("floordiv", Neg(args[1]), args[2])))
    ELSE Ok(PyOp("floordiv", args[1], args[2]))

\* The while loop of scheme_remainder.
RECURSIVE RemainderLoop(_, _, _)
RemainderLoop(result, val0, val1) ==
    IF (result[2] < 0 /\ val0[2] > 0) \/ (result[2] > 0 /\ val0[2] < 0)
    THEN RemainderLoop(PyOp("sub", result, val1), val0, val1)
    ELSE result

scheme_remainder(args) ==
    IF Len(args) # 2 THEN WrongArity
    ELSE IF ~AllNumbers(args) THEN NotNumber
    ELSE IF IsZero(args[2]) THEN ZeroDivision("SchemeError")
    ELSE Ok(RemainderLoop(PyOp("mod", args[1], args[2]), args[1], args[2]))

scheme_eq(args) ==
    IF Len(args) # 2 THEN WrongArity
    ELSE IF ~AllNumbers(args) THEN NotNumber
    ELSE Ok(Bool(PyOp("sub", args[1], args[2])[2] = 0))

scheme_car(args) ==
    IF Len(args) # 1 THEN WrongArity
    ELSE IF ~is_scheme_pair(args[1]) THEN WrongType
    ELSE Ok(args[1][2])

\* The primitives that run without calling back into the evaluator.
\* stream-pair?
is_stream_pair(obj) == is_scheme_pair(obj) /\ is_scheme_promise(obj[3])

\* stream-car
stream_car(args) ==
    IF Len(args) # 1 THEN WrongArity
    ELSE IF ~is_stream_pair(args[1]) THEN WrongType
    ELSE Ok(args[1][2])

HostFunctions ==
    {"+", "-", "*", "/", "abs", "expt", "modulo", "quotient", "remainder",
     "=", "car", "cons", "list", "stream-car"}

HostCall(name, args) ==
    CASE name = "+" -> scheme_add(args)
      [] name = "-" -> scheme_sub(args)
      [] name = "*" -> scheme_mul(args)
      [] name = "/" -> scheme_div(args)
      [] name = "abs" -> scheme_abs(args)
      [] name = "expt" -> scheme_expt(args)
      [] name = "modulo" -> scheme_modulo(args)
      [] name = "quotient" -> scheme_quo(args)
      [] name = "remainder" -> scheme_remainder(args)
      [] name = "=" -> scheme_eq(args)
      [] name = "car" -> scheme_car(args)
      [] name = "cons" ->
            IF Len(args) # 2 THEN WrongArity ELSE Ok(Pair(args[1], args[2]))
      [] name = "list" -> Ok(scheme_list(args))
      [] name = "stream-car" -> stream_car(args)

\* The truth value Python gives a Scheme value in `if`/`elif`.
PyTruthy(v) ==
    CASE is_scheme_boolean(v) -> Ok(v[2])
      [] is_scheme_number(v) -> Ok(v[2] # 0)
      [] is_scheme_null(v) -> Ok(FALSE)
      [] v = None -> Ok(FALSE)
      [] is_scheme_pair(v) ->
            IF PairLen(v) < 0
            THEN Raise("TypeError", "length attempted on improper list")
            ELSE Ok(TRUE)
      [] OTHER -> Ok(TRUE)

PrimitiveProcedure_apply ==
    /\ Running("PrimitiveProcedure_apply")
    /\ LET t == Top
           name == t.expr[2]
           args == Flatten(t.x)
           n == Len(args)
       IN
       Do(CASE t.pc = 0 /\ ~is_scheme_list(t.x) ->
                 Throw(Raise("SchemeError", "Arguments are not in a list"),
                       frames)
            [] t.pc = 0 /\ is_scheme_list(t.x) /\ name \in HostFunctions ->
                 LET r == HostCall(name, args) IN
                 IF IsOk(r) THEN Return(r.val, frames) ELSE Throw(r, frames)
            [] t.pc = 0 /\ is_scheme_list(t.x) /\ name = "eval" ->
                 IF n = 1
                 THEN Call(t, 9, Rec("original_scheme_eval", args[1], t.env,
                                     FALSE, None), frames)
                 ELSE IF n = 0
                 THEN Throw(Raise("SchemeError", "Unknown expression type"),
                            frames)
                 ELSE IF n > 2 THEN Throw(WrongArity, frames)
                 ELSE IF is_self_evaluating(args[1])
                 THEN Return(args[1], frames)
                 ELSE Throw(Raise("AttributeError", "env"), frames)
            [] t.pc = 0 /\ is_scheme_list(t.x) /\ name = "apply" ->
                 IF n = 2
                 THEN Call(t, 9, Rec("scheme_apply", args[1], t.env, FALSE,
                                     args[2]), frames)
                 ELSE Throw(WrongArity, frames)
            [] t.pc = 0 /\ is_scheme_list(t.x)
                        /\ name \in {"map", "filter", "reduce"} ->
                 IF n = 2
                 THEN Call(t, 9, Rec(IF name = "map" THEN "scheme_map"
                                     ELSE IF name = "filter"
                                     THEN "scheme_filter"
                                     ELSE "scheme_reduce",
                                     args[1], t.env, FALSE, args[2]), frames)
                 ELSE Throw(WrongArity, frames)
            [] t.pc = 0 /\ is_scheme_list(t.x)
                        /\ name \in {"stream-map", "stream-filter",
                                     "stream-reduce"} ->
                 IF n = 2
                 THEN Call(t, 9, Rec(IF name = "stream-map" THEN "stream_map"
                                     ELSE IF name = "stream-filter"
                                     THEN "stream_filter"
                                     ELSE "stream_reduce",
                                     args[1], t.env, FALSE, args[2]), frames)
                 ELSE Throw(WrongArity, frames)
            [] t.pc = 0 /\ is_scheme_list(t.x) /\ name = "force" ->
                 IF n = 1
                 THEN Call(t, 9, Rec("scheme_force", args[1], t.env, FALSE,
                                     None), frames)
                 ELSE Throw(WrongArity, frames)
            \* stream_cdr: validate_type, then scheme_force(stream.rest)
            [] t.pc = 0 /\ is_scheme_list(t.x) /\ name = "stream-cdr" ->
                 IF n # 1 THEN Throw(WrongArity, frames)
                 ELSE IF ~is_stream_pair(args[1]) THEN Throw(WrongType, frames)
                 ELSE Call(t, 9, Rec("scheme_force", args[1][3], t.env, FALSE,
                                     None), frames)
            [] t.pc = 9 -> Return(ret, frames))

NeverForced(val) == FALSE

\* complete_apply, line 597: the result of scheme_apply is still deferred.
ResultIsDeferred(val) == IsTailPromise(val)

complete_apply ==
    /\ Running("complete_apply")
    /\ LET t == Top IN
       Do(CASE t.pc = 0 ->
                 Call(t, 1, Rec("scheme_apply", t.expr, t.env, FALSE, t.x),
                      frames)
            [] t.pc = 1 /\ ResultIsDeferred(ret) ->
                 Call(t, 9, Rec("scheme_eval", ret[2], ret[3], FALSE, None),
                      frames)
            [] t.pc = 1 /\ ~ResultIsDeferred(ret) -> Return(ret, frames)
            [] t.pc = 9 -> Return(ret, frames))

\* scheme_map and its scheme_map_iter (the record of the iteration has
\* fn "scheme_map_iter"; both are steps of the one primitive).
scheme_map ==
    /\ RunningIn({"scheme_map", "scheme_map_iter"})
    /\ LET t == Top IN
       Do(CASE t.fn = "scheme_map" /\ t.pc = 0 ->
                 IF ~IsProcedure(t.expr) \/ ~is_scheme_list(t.x)
                 THEN Throw(WrongType, frames)
                 ELSE Call(t, 9, Rec("scheme_map_iter", t.expr, t.env, FALSE,
                                     t.x), frames)
            [] t.fn = "scheme_map" /\ t.pc = 9 -> Return(ret, frames)
            [] t.fn = "scheme_map_iter" /\ t.pc = 0 ->
                 IF is_scheme_null(t.x) THEN Return(nil, frames)
                 ELSE Call(t, 1, Rec("complete_apply", t.expr, t.env, FALSE,
                                     scheme_list(<<t.x[2]>>)), frames)
            [] t.fn = "scheme_map_iter" /\ t.pc = 1 ->
                 CallY(t, 2, ret, Rec("scheme_map_iter", t.expr, t.env, FALSE,
                                      t.x[3]), frames)
            [] t.fn = "scheme_map_iter" /\ t.pc = 2 ->
                 Return(scheme_cons(t.y, ret), frames))

scheme_filter ==
    /\ RunningIn({"scheme_filter", "scheme_filter_iter"})
    /\ LET t == Top IN
       Do(CASE t.fn = "scheme_filter" /\ t.pc = 0 ->
                 IF ~IsProcedure(t.expr) \/ ~is_scheme_list(t.x)
                 THEN Throw(WrongType, frames)
                 ELSE Call(t, 9, Rec("scheme_filter_iter", t.expr, t.env,
                                     FALSE, t.x), frames)
            [] t.fn = "scheme_filter" /\ t.pc = 9 -> Return(ret, frames)
            [] t.fn = "scheme_filter_iter" /\ t.pc = 0 ->
                 IF is_scheme_null(t.x) THEN Return(nil, frames)
                 ELSE Call(t, 1, Rec("complete_apply", t.expr, t.env, FALSE,
                                     scheme_list(<<t.x[2]>>)), frames)
            [] t.fn = "scheme_filter_iter" /\ t.pc = 1 ->
                 LET b == PyTruthy(ret) IN
                 IF ~IsOk(b) THEN Throw(b, frames)
                 ELSE Call(t, IF b.val THEN 2 ELSE 9,
                           Rec("scheme_filter_iter", t.expr, t.env, FALSE,
                               t.x[3]), frames)
            [] t.fn = "scheme_filter_iter" /\ t.pc = 2 ->
                 Return(scheme_cons(t.x[2], ret), frames)
            [] t.fn = "scheme_filter_iter" /\ t.pc = 9 -> Return(ret, frames))

\* scheme_reduce and its scheme_reduce_iter, whose `initial` is kept in y.
scheme_reduce ==
    /\ RunningIn({"scheme_reduce", "scheme_reduce_iter"})
    /\ LET t == Top IN
       Do(CASE t.fn = "scheme_reduce" /\ t.pc = 0 ->
                 IF \/ ~IsProcedure(t.expr)
                    \/ is_scheme_null(t.x)
                    \/ ~is_scheme_list(t.x)
                 THEN Throw(WrongType, frames)
                 ELSE Call(t, 9, [Rec("scheme_reduce_iter", t.expr, t.env,
                                      FALSE, t.x[3]) EXCEPT !.y = t.x[2]],
                           frames)
            [] t.fn = "scheme_reduce" /\ t.pc = 9 -> Return(ret, frames)
            [] t.fn = "scheme_reduce_iter" /\ t.pc = 0 ->
                 IF is_scheme_null(t.x) THEN Return(t.y, frames)
                 ELSE Call(t, 1, [Rec("scheme_reduce_iter", t.expr, t.env,
                                      FALSE, t.x[3]) EXCEPT !.y = t.y],
                           frames)
            [] t.fn = "scheme_reduce_iter" /\ t.pc = 1 ->
                 Call(t, 9, Rec("complete_apply", t.expr, t.env, FALSE,
                                scheme_list(<<t.x[2], ret>>)), frames)
            [] t.fn = "scheme_reduce_iter" /\ t.pc = 9 ->
                 Return(ret, frames))

\* A stream-map that maps the first element and keeps the promise of the
\* rest.
stream_map_first ==
    /\ RunningIn({"stream_map", "stream_map_iter"})
    /\ LET t == Top IN
       Do(CASE t.fn = "stream_map" /\ t.pc = 0 ->
                 IF ~IsProcedure(t.expr) \/ ~is_stream_pair(t.x)
                 THEN Throw(WrongType, frames)
                 ELSE Call(t, 9, Rec("complete_apply", t.expr, t.env, FALSE,
                                     scheme_list(<<t.x[2]>>)), frames)
            [] t.fn = "stream_map" /\ t.pc = 9 ->
                 Return(scheme_cons(ret, t.x[3]), frames)
            [] t.fn = "stream_map_iter" -> Return(nil, frames))

\* stream_map and its stream_map_iter; stream_car(stream) validates the
\* stream, stream_cdr(stream) is scheme_force(stream.rest).
stream_map ==
    /\ RunningIn({"stream_map", "stream_map_iter"})
    /\ LET t == Top IN
       Do(CASE t.fn = "stream_map" /\ t.pc = 0 ->
                 IF ~IsProcedure(t.expr) \/ ~is_stream_pair(t.x)
                 THEN Throw(WrongType, frames)
                 ELSE Call(t, 9, Rec("stream_map_iter", t.expr, t.env, FALSE,
                                     t.x), frames)
            [] t.fn = "stream_map" /\ t.pc = 9 -> Return(ret, frames)
            [] t.fn = "stream_map_iter" /\ t.pc = 0 ->
                 IF is_scheme_null(t.x) THEN Return(nil, frames)
                 ELSE IF ~is_stream_pair(t.x) THEN Throw(WrongType, frames)
                 ELSE Call(t, 1, Rec("complete_apply", t.expr, t.env, FALSE,
                                     scheme_list(<<t.x[2]>>)), frames)
            [] t.fn = "stream_map_iter" /\ t.pc = 1 ->
                 CallY(t, 2, ret, Rec("scheme_force", t.x[3], t.env, FALSE,
                                      None), frames)
            [] t.fn = "stream_map_iter" /\ t.pc = 2 ->
                 Call(t, 3, Rec("stream_map_iter", t.expr, t.env, FALSE, ret),
                      frames)
            [] t.fn = "stream_map_iter" /\ t.pc = 3 ->
                 Return(scheme_cons(t.y, ret), frames))

\* stream_filter and its scheme_filter_iter (the record of the iteration
\* has fn "stream_filter_iter").
stream_filter ==
    /\ RunningIn({"stream_filter", "stream_filter_iter"})
    /\ LET t == Top IN
       Do(CASE t.fn = "stream_filter" /\ t.pc = 0 ->
                 IF ~IsProcedure(t.expr) \/ ~is_stream_pair(t.x)
                 THEN Throw(WrongType, frames)
                 ELSE Call(t, 9, Rec("stream_filter_iter", t.expr, t.env,
                                     FALSE, t.x), frames)
            [] t.fn = "stream_filter" /\ t.pc = 9 -> Return(ret, frames)
            [] t.fn = "stream_filter_iter" /\ t.pc = 0 ->
                 IF is_scheme_null(t.x) THEN Return(nil, frames)
                 ELSE IF ~is_stream_pair(t.x) THEN Throw(WrongType, frames)
                 ELSE Call(t, 1, Rec("complete_apply", t.expr, t.env, FALSE,
                                     scheme_list(<<t.x[2]>>)), frames)
            [] t.fn = "stream_filter_iter" /\ t.pc = 1 ->
                 LET b == PyTruthy(ret) IN
                 IF ~IsOk(b) THEN Throw(b, frames)
                 ELSE Call(t, IF b.val THEN 2 ELSE 4,
                           Rec("scheme_force", t.x[3], t.env, FALSE, None),
                           frames)
            [] t.fn = "stream_filter_iter" /\ t.pc \in {2, 4} ->
                 Call(t, IF t.pc = 2 THEN 3 ELSE 9,
                      Rec("stream_filter_iter", t.expr, t.env, FALSE, ret),
                      frames)
            [] t.fn = "stream_filter_iter" /\ t.pc = 3 ->
                 Return(scheme_cons(t.x[2], ret), frames)
            [] t.fn = "stream_filter_iter" /\ t.pc = 9 ->
                 Return(ret, frames))

\* stream_reduce and its scheme_reduce_iter (fn "stream_reduce_iter"),
\* whose `initial` is kept in y.
stream_reduce ==
    /\ RunningIn({"stream_reduce", "stream_reduce_iter"})
    /\ LET t == Top IN
       Do(CASE t.fn = "stream_reduce" /\ t.pc = 0 ->
                 IF \/ ~IsProcedure(t.expr)
                    \/ is_scheme_null(t.x)
                    \/ ~is_stream_pair(t.x)
                 THEN Throw(WrongType, frames)
                 ELSE Call(t, 1, Rec("scheme_force", t.x[3], t.env, FALSE,
                                     None), frames)
            [] t.fn = "stream_reduce" /\ t.pc = 1 ->
                 Call(t, 9, [Rec("stream_reduce_iter", t.expr, t.env, FALSE,
                                 ret) EXCEPT !.y = t.x[2]], frames)
            [] t.fn = "stream_reduce" /\ t.pc = 9 -> Return(ret, frames)
            [] t.fn = "stream_reduce_iter" /\ t.pc = 0 ->
                 IF is_scheme_null(t.x) THEN Return(t.y, frames)
                 ELSE IF ~is_stream_pair(t.x) THEN Throw(WrongType, frames)
                 ELSE Call(t, 1, Rec("scheme_force", t.x[3], t.env, FALSE,
                                     None), frames)
            [] t.fn = "stream_reduce_iter" /\ t.pc = 1 ->
                 Call(t, 2, [Rec("stream_reduce_iter", t.expr, t.env, FALSE,
                                 ret) EXCEPT !.y = t.y], frames)
            [] t.fn = "stream_reduce_iter" /\ t.pc = 2 ->
                 Call(t, 9, Rec("complete_apply", t.expr, t.env, FALSE,
                                scheme_list(<<t.x[2], ret>>)), frames)
            [] t.fn = "stream_reduce_iter" /\ t.pc = 9 ->
                 Return(ret, frames))

scheme_force ==
    /\ Running("scheme_force")
    /\ LET t == Top IN
       Do(CASE t.pc = 0 /\ ~is_scheme_promise(t.expr) ->
                 Throw(WrongType, frames)
            [] t.pc = 0 /\ is_scheme_promise(t.expr) ->
                 Call(t, 9, Rec("scheme_eval", t.expr[2], t.expr[3], FALSE,
                                None), frames)
            [] t.pc = 9 -> Return(ret, frames))


(***************************************************************************)
(* Special forms                                                           *)
(***************************************************************************)
eval_if ==
    /\ Running("eval_if")
    /\ LET t == Top
           v == validate_form(t.expr, 2, 3)
       IN
       Do(CASE t.pc = 0 /\ ~IsOk(v) -> Throw(v, frames)
            [] t.pc = 0 /\ IsOk(v) ->
                 Call(t, 1, Rec("scheme_eval", t.expr[2], t.env, FALSE, None),
                      frames)
            [] t.pc = 1 /\ is_scheme_true(ret) ->
                 IF t.expr[3][2] = None
                 THEN Return(ret, frames)
                 ELSE Call(t, 9, Rec("scheme_eval", t.expr[3][2], t.env,
                                     t.tail, None), frames)
            [] t.pc = 1 /\ ~is_scheme_true(ret) ->
                 IF PairLen(t.expr) = 3
                 THEN Call(t, 9, Rec("scheme_eval", t.expr[3][3][2], t.env,
                                     t.tail, None), frames)
                 ELSE Return(Bool(FALSE), frames)
            [] t.pc = 9 -> Return(ret, frames))

eval_sequence ==
    /\ Running("eval_sequence")
    /\ LET t == Top IN
       Do(CASE t.pc = 0 /\ ~is_scheme_pair(t.expr) -> Return(None, frames)
            [] t.pc = 0 /\ is_scheme_pair(t.expr) ->
                 IF is_scheme_null(t.expr[3])
                 THEN Call(t, 9, Rec("scheme_eval", t.expr[2], t.env, t.tail,
                                     None), frames)
                 ELSE Call(t, 1, Rec("scheme_eval", t.expr[2], t.env, FALSE,
                                     None), frames)
            [] t.pc = 1 ->
                 Call(t, 9, Rec("eval_sequence", t.expr[3], t.env, t.tail,
                                None), frames)
            [] t.pc = 9 -> Return(ret, frames))

eval_begin ==
    /\ Running("eval_begin")
    /\ LET t == Top
           v == validate_form(t.expr, 1, NoMax)
       IN
       Do(CASE t.pc = 0 /\ ~IsOk(v) -> Throw(v, frames)
            [] t.pc = 0 /\ IsOk(v) ->
                 Call(t, 9, Rec("eval_sequence", t.expr, t.env, t.tail, None),
                      frames)
            [] t.pc = 9 -> Return(ret, frames))

\* eval_let with make_let_frame and its bindings_items.  make_let_frame
\* returns the new environment, bindings_items the two lists (vars, vals).
eval_let ==
    /\ RunningIn({"eval_let", "make_let_frame", "bindings_items"})
    /\ LET t == Top
           v == validate_form(t.expr, 2, NoMax)
           b == validate_form(t.expr[2], 2, 2)
       IN
       Do(CASE t.fn = "eval_let" /\ t.pc = 0 /\ ~IsOk(v) -> Throw(v, frames)
            [] t.fn = "eval_let" /\ t.pc = 0 /\ IsOk(v) ->
                 Call(t, 1, Rec("make_let_frame", t.expr[2], t.env, FALSE,
                                None), frames)
            [] t.fn = "eval_let" /\ t.pc = 1 ->
                 Call(t, 9, Rec("eval_sequence", t.expr[3], ret[2], t.tail,
                                None), frames)
            [] t.fn = "eval_let" /\ t.pc = 9 -> Return(ret, frames)
            [] t.fn = "make_let_frame" /\ t.pc = 0 ->
                 IF ~is_scheme_list(t.expr)
                 THEN Throw(Raise("SchemeError",
                                  "bad bindings list in let form"), frames)
                 ELSE Call(t, 1, Rec("bindings_items", t.expr, t.env, FALSE,
                                     None), frames)
            [] t.fn = "make_let_frame" /\ t.pc = 1 ->
                 LET p == validate_parameters(ret[2])
                     r == extend_environment(frames, t.env, ret[2], ret[3])
                 IN
                 IF ~IsOk(p) THEN Throw(p, frames)
                 ELSE IF ~IsOk(r) THEN Throw(r, frames)
                 ELSE Return(<<"env", r.env>>, r.frames)
            [] t.fn = "bindings_items" /\ t.pc = 0 ->
                 IF is_scheme_null(t.expr)
                 THEN Return(<<"tuple", nil, nil>>, frames)
                 ELSE IF ~IsOk(b) THEN Throw(b, frames)
                 ELSE Call(t, 1, Rec("scheme_eval", t.expr[2][3][2], t.env,
                                     FALSE, None), frames)
            [] t.fn = "bindings_items" /\ t.pc = 1 ->
                 CallX(t, 2, ret, Rec("bindings_items", t.expr[3], t.env,
                                      FALSE, None), frames)
            [] t.fn = "bindings_items" /\ t.pc = 2 ->
                 Return(<<"tuple", scheme_cons(t.expr[2][2], ret[2]),
                          scheme_cons(t.x, ret[3])>>, frames))

eval_assignment ==
    /\ Running("eval_assignment")
    /\ LET t == Top IN
       Do(CASE t.pc = 0 /\ (~is_scheme_pair(t.expr)
                            \/ ~is_scheme_pair(t.expr[3])) ->
                 Throw(Raise("AttributeError", "first"), frames)
            [] t.pc = 0 /\ is_scheme_pair(t.expr)
                        /\ is_scheme_pair(t.expr[3]) ->
                 Call(t, 1, Rec("scheme_eval", t.expr[3][2], t.env, FALSE,
                                None), frames)
            [] t.pc = 1 ->
                 IF is_scheme_pair(t.expr[2])
                 THEN Throw(Raise("TypeError", "unhashable type"), frames)
                 ELSE LET r == set_variable_value(frames, t.env,
                                                  Key(t.expr[2]), ret)
                      IN IF IsOk(r) THEN Return(None, r.frames)
                         ELSE Throw(r, frames))

eval_definition ==
    /\ Running("eval_definition")
    /\ LET t == Top
           v == validate_form(t.expr, 2, NoMax)
           target == t.expr[2]
       IN
       Do(CASE t.pc = 0 /\ ~IsOk(v) -> Throw(v, frames)
            [] t.pc = 0 /\ IsOk(v) /\ is_scheme_symbol(target) ->
                 IF ~IsOk(validate_form(t.expr, 2, 2))
                 THEN Throw(validate_form(t.expr, 2, 2), frames)
                 ELSE CallX(t, 1, target,
                            Rec("scheme_eval", t.expr[3][2], t.env, FALSE,
                                None), frames)
            [] t.pc = 0 /\ IsOk(v) /\ is_scheme_pair(target)
                        /\ is_scheme_symbol(target[2]) ->
                 CallX(t, 1, target[2],
                       Rec("scheme_eval", make_lambda(target[3], t.expr[3]),
                           t.env, FALSE, None), frames)
            [] t.pc = 0 /\ IsOk(v) /\ ~is_scheme_symbol(target)
                        /\ ~(is_scheme_pair(target)
                             /\ is_scheme_symbol(target[2])) ->
                 Throw(Raise("SchemeError", "non-symbol"), frames)
            [] t.pc = 1 ->
                 Return(t.x, define_variable(frames, t.env, t.x[2], ret)))

eval_lambda ==
    /\ Running("eval_lambda")
    /\ LET t == Top
           v == validate_form(t.expr, 2, NoMax)
           p == validate_parameters(t.expr[2])
       IN
       Do(IF ~IsOk(v) THEN Throw(v, frames)
          ELSE IF ~IsOk(p) THEN Throw(p, frames)
          ELSE IF ~is_scheme_list(t.expr[2]) THEN Throw(WrongType, frames)
          ELSE Return(LambdaProcedure(t.expr[2], t.expr[3], t.env), frames))

OnlyFirstAction(seq) == IF is_scheme_null(seq) THEN seq ELSE seq[2]

sequence_to_expr(seq) ==
    IF is_scheme_null(seq) THEN seq
    ELSE IF is_scheme_null(seq[3]) THEN seq[2]
    ELSE scheme_cons(Sym("begin"), seq)

\* make_if(predicate, consequent, cond_to_if(rest)), given the outcome of
\* cond_to_if(rest).
make_if(predicate, consequent, alternative) ==
    IF ~IsOk(alternative) THEN alternative
    ELSE Ok(scheme_list(<<Sym("if"), predicate, consequent,
                          alternative.val>>))

RECURSIVE cond_to_if(_)
cond_to_if(clauses) ==
    IF is_scheme_null(clauses) THEN Ok(None)
    ELSE IF ~is_scheme_pair(clauses) THEN Raise("AttributeError", "first")
    ELSE IF ~IsOk(validate_form(clauses[2], 1, NoMax))
    THEN validate_form(clauses[2], 1, NoMax)
    ELSE IF clauses[2][2] = Sym("else")
    THEN IF is_scheme_null(clauses[3])
         THEN Ok(sequence_to_expr(clauses[2][3]))
         ELSE Raise("SchemeError", "ELSE clause isn't last")
    ELSE make_if(clauses[2][2],
                 IF is_scheme_null(clauses[2][3]) THEN None
                 ELSE sequence_to_expr(clauses[2][3]),
                 cond_to_if(clauses[3]))

eval_cond ==
    /\ Running("eval_cond")
    /\ LET t == Top IN
       Do(CASE t.pc = 0 ->
                 IF ~IsOk(cond_to_if(t.expr))
                 THEN Throw(cond_to_if(t.expr), frames)
                 ELSE Call(t, 9, Rec("scheme_eval", cond_to_if(t.expr).val,
                                     t.env, t.tail, None), frames)
            [] t.pc = 9 -> Return(ret, frames))

\* quasiquote_item(val, env, depth), the depth held in x as an Integer.
quasiquote_item ==
    /\ Running("quasiquote_item")
    /\ LET t == Top
           val == t.expr
           depth == CASE ~is_scheme_pair(val) -> t.x[2]
                      [] val[2] = Sym("unquote") -> t.x[2] - 1
                      [] val[2] = Sym("quasiquote") -> t.x[2] + 1
                      [] OTHER -> t.x[2]
           v == validate_form(val[3], 1, 1)
       IN
       Do(CASE t.pc = 0 /\ ~is_scheme_pair(val) -> Return(val, frames)
            [] t.pc = 0 /\ is_scheme_pair(val) ->
                 IF val[2] = Sym("unquote") /\ depth = 0
                 THEN IF ~IsOk(v) THEN Throw(v, frames)
                      ELSE Call(t, 9, Rec("scheme_eval", val[3][2], t.env,
                                          FALSE, None), frames)
                 ELSE Call(t, 9, [Rec("Pair_map", val, t.env, FALSE, None)
                                     EXCEPT !.y = Integer(depth)], frames)
            [] t.pc = 9 -> Return(ret, frames))

eval_quasiquote ==
    /\ Running("eval_quasiquote")
    /\ LET t == Top
           v == validate_form(t.expr, 1, 1)
       IN
       Do(CASE t.pc = 0 ->
                 IF ~IsOk(v) THEN Throw(v, frames)
                 ELSE Call(t, 9, Rec("quasiquote_item", t.expr[2], t.env,
                                     FALSE, Integer(1)), frames)
            [] t.pc = 9 -> Return(ret, frames))

eval_unquote ==
    /\ Running("eval_unquote")
    /\ Do(Throw(Raise("SchemeError", "unquote outside of quasiquote"),
                frames))

eval_quote ==
    /\ Running("eval_quote")
    /\ LET t == Top
           v == validate_form(t.expr, 1, 1)
       IN
       Do(IF ~IsOk(v) THEN Throw(v, frames) ELSE Return(t.expr[2], frames))

eval_dlambda_form ==
    /\ Running("eval_dlambda_form")
    /\ LET t == Top
           v == validate_form(t.expr, 2, NoMax)
           p == validate_parameters(t.expr[2])
       IN
       Do(IF ~IsOk(v) THEN Throw(v, frames)
          ELSE IF ~IsOk(p) THEN Throw(p, frames)
          ELSE Return(DLambdaProcedure(t.expr[2], t.expr[3]), frames))

eval_delay ==
    /\ Running("eval_delay")
    /\ LET t == Top
           v == validate_form(t.expr, 1, 1)
       IN
       Do(IF ~IsOk(v) THEN Throw(v, frames)
          ELSE Return(Promise(t.expr[2], t.env), frames))

\* A cons-stream that evaluates both operands when the form is evaluated.
EagerConsStream ==
    /\ Running("eval_cons_stream")
    /\ LET t == Top
           v == validate_form(t.expr, 2, 2)
       IN
       Do(CASE t.pc = 0 /\ ~IsOk(v) -> Throw(v, frames)
            [] t.pc = 0 /\ IsOk(v) ->
                 Call(t, 1, Rec("scheme_eval", t.expr[2], t.env, FALSE, None),
                      frames)
            [] t.pc = 1 ->
                 CallX(t, 2, ret, Rec("scheme_eval", t.expr[3][2], t.env,
                                      FALSE, None), frames)
            [] t.pc = 2 -> Return(Pair(t.x, ret), frames))

eval_cons_stream ==
    /\ Running("eval_cons_stream")
    /\ LET t == Top
           v == validate_form(t.expr, 2, 2)
       IN
       Do(CASE t.pc = 0 /\ ~IsOk(v) -> Throw(v, frames)
            [] t.pc = 0 /\ IsOk(v) ->
                 Call(t, 1, Rec("scheme_eval", t.expr[2], t.env, FALSE, None),
                      frames)
            [] t.pc = 1 ->
                 Return(Pair(ret, Promise(t.expr[3][2], t.env)), frames))

MacroProcedure(parameters, body, env) == <<"macro", parameters, body, env>>

\* eval_macro_definition; MacroProcedure(...) runs LambdaProcedure.__init__,
\* whose validate_type calls require parameters and body to be Scheme lists.
eval_macro_definition ==
    /\ Running("eval_macro_definition")
    /\ LET t == Top
           v == validate_form(t.expr, 2, NoMax)
           target == t.expr[2]
       IN
       Do(IF ~IsOk(v) THEN Throw(v, frames)
          ELSE IF ~(is_scheme_pair(target) /\ is_scheme_symbol(target[2]))
          THEN Throw(Raise("SchemeError", "Invalid use of macro"), frames)
          ELSE IF ~is_scheme_list(target[3]) \/ ~is_scheme_list(t.expr[3])
          THEN Throw(WrongType, frames)
          ELSE Return(target[2],
                      define_variable(frames, t.env, target[2][2],
                                      MacroProcedure(target[3], t.expr[3],
                                                     t.env))))

NoShortCircuit(form, val) == FALSE

\* eval_and stops at a false value (line 221), eval_or at a true one (256).
ShortCircuits(form, val) ==
    IF form = "eval_and" THEN is_scheme_false(val) ELSE is_scheme_true(val)

\* eval_and and eval_or: the two handlers differ in the value of the empty
\* form, in the test that stops them and in what they return when stopped.
eval_and_or(form) ==
    /\ Running(form)
    /\ LET t == Top IN
       Do(CASE t.pc = 0 /\ is_scheme_null(t.expr) ->
                 Return(Bool(form = "eval_and"), frames)
            [] t.pc = 0 /\ ~is_scheme_null(t.expr) /\ ~is_scheme_pair(t.expr) ->
                 Throw(Raise("AttributeError", "rest"), frames)
            [] t.pc = 0 /\ is_scheme_pair(t.expr) ->
                 IF is_scheme_null(t.expr[3])
                 THEN Call(t, 9, Rec("scheme_eval", t.expr[2], t.env, t.tail,
                                     None), frames)
                 ELSE Call(t, 1, Rec("scheme_eval", t.expr[2], t.env, FALSE,
                                     None), frames)
            [] t.pc = 1 /\ ShortCircuits(form, ret) ->
                 Return(IF form = "eval_and" THEN Bool(FALSE) ELSE ret, frames)
            [] t.pc = 1 /\ ~ShortCircuits(form, ret) ->
                 Call(t, 9, Rec(form, t.expr[3], t.env, TRUE, None), frames)
            [] t.pc = 9 -> Return(ret, frames))

eval_and == eval_and_or("eval_and")

eval_or == eval_and_or("eval_or")

(***************************************************************************)
(* Tokenizer (scm_tokenizer.py).  A line is a sequence of characters, each *)
(* a one-character string; the backquote character, which a TLA+ string    *)
(* cannot hold, is written Backquote.  A token that Python holds as a str  *)
(* (a delimiter, nil, a symbol) is a Sym, a string literal a Str.          *)
(***************************************************************************)
Backquote == "{backquote}"
LowerCase ==
    <<"a", "b", "c", "d", "e", "f", "g", "h", "i", "j", "k", "l", "m", "n",
    "o", "p", "q", "r", "s", "t", "u", "v", "w", "x", "y", "z">>
UpperCase ==
    <<"A", "B", "C", "D", "E", "F", "G", "H", "I", "J", "K", "L", "M", "N",
    "O", "P", "Q", "R", "S", "T", "U", "V", "W", "X", "Y", "Z">>
Range(s) == {s[i] : i \in 1..Len(s)}
Digits == <<"0", "1", "2", "3", "4", "5", "6", "7", "8", "9">>
NUMERAL_STARTS == Range(Digits) \cup {"+", "-", "."}
SYMBOL_CHARS ==
    {"!", "$", "%", "&", "*", "/", ":", "<", "=", ">", "?", "@", "^", "_", "~"}
    \cup Range(LowerCase) \cup Range(UpperCase) \cup NUMERAL_STARTS
STRING_DELIMS == {"\""}
WHITESPACE == {" ", "\t", "\n", "\r"}
SINGLE_CHAR_TOKENS == {"(", ")", "[", "]", "'", Backquote}
TOKEN_END == WHITESPACE \cup SINGLE_CHAR_TOKENS \cup STRING_DELIMS \cup {","}
DELIMITERS == SINGLE_CHAR_TOKENS \cup {".", ",", ",@"}

\* str.lower() of one character, and the str a list of characters spells.
Lower(c) ==
    IF c \in Range(UpperCase)
    THEN LowerCase[CHOOSE i \in 1..Len(UpperCase) : UpperCase[i] = c]
    ELSE c
RECURSIVE Text(_)
Text(cs) == IF cs = <<>> THEN "" ELSE Head(cs) \o Text(Tail(cs))
LowerText(cs) == Text([i \in 1..Len(cs) |-> Lower(cs[i])])

NoToken == <<>>
Candidate(tok, k) == [kind |-> "ok", tok |-> tok, k |-> k]

\* next_candidate_token, lines 132-136: the end of a name that starts at j.
RECURSIVE NameEnd(_, _)
NameEnd(line, j) ==
    IF j <= Len(line) /\ line[j] \notin TOKEN_END THEN NameEnd(line, j + 1)
    ELSE j

\* next_candidate_token, lines 109-131: the string literal whose characters
\* so far are s, read from position k on.
RECURSIVE StringLiteral(_, _, _)
StringLiteral(line, k, s) ==
    IF k > Len(line) THEN Raise("SyntaxError", "String ended abruptly")
    ELSE IF line[k] = "\"" THEN Candidate(<<"\"">> \o s \o <<"\"">>, k + 1)
    ELSE IF line[k] = "\\"
    THEN IF k = Len(line) THEN Raise("SyntaxError", "String ended abruptly")
         ELSE StringLiteral(line, k + 2,
                            Append(s, IF line[k + 1] = "n" THEN "\n"
                                      ELSE line[k + 1]))
    ELSE StringLiteral(line, k + 1, Append(s, line[k]))

\* Positions are counted from 1: k is the position of the next character.
RECURSIVE next_candidate_token(_, _)
next_candidate_token(line, k) ==
    IF k > Len(line) THEN Candidate(NoToken, Len(line) + 1)
    ELSE LET c == line[k] IN
         CASE c = ";" -> Candidate(NoToken, Len(line) + 1)
           [] c \in WHITESPACE -> next_candidate_token(line, k + 1)
           [] c \in SINGLE_CHAR_TOKENS ->
                 Candidate(<<IF c = "]" THEN ")"
                             ELSE IF c = "[" THEN "(" ELSE c>>, k + 1)
           [] c = "#" ->
                 IF k < Len(line) THEN Candidate(<<c, line[k + 1]>>, k + 2)
                 ELSE Candidate(<<c>>, k + 1)
           [] c = "," ->
                 IF k < Len(line) /\ line[k + 1] = "@"
                 THEN Candidate(<<",", "@">>, k + 2)
                 ELSE Candidate(<<c>>, k + 1)
           [] c \in STRING_DELIMS ->
                 IF k < Len(line) /\ line[k + 1] = c
                 THEN Candidate(<<c, c>>, k + 2)
                 ELSE StringLiteral(line, k + 1, <<>>)
           [] OTHER ->
                 Candidate(SubSeq(line, k, NameEnd(line, k) - 1),
                           NameEnd(line, k))

\* int(text): an optional sign, then digits, single underscores allowed
\* between digits.
Unsigned(text) == IF Head(text) \in {"+", "-"} THEN Tail(text) ELSE text
IsIntText(text) ==
    LET body == Unsigned(text) IN
    /\ body # <<>>
    /\ \A i \in 1..Len(body) : body[i] \in Range(Digits) \cup {"_"}
    /\ body[1] # "_" /\ body[Len(body)] # "_"
    /\ \A i \in 1..(Len(body) - 1) : ~(body[i] = "_" /\ body[i + 1] = "_")
RECURSIVE DigitsValue(_, _)
DigitsValue(body, acc) ==
    IF body = <<>> THEN acc
    ELSE IF Head(body) = "_" THEN DigitsValue(Tail(body), acc)
    ELSE DigitsValue(Tail(body),
                     10 * acc
                     + (CHOOSE d \in 0..9 : Digits[d + 1] = Head(body)))
IntValue(text) ==
    IF Head(text) = "-" THEN 0 - DigitsValue(Unsigned(text), 0)
    ELSE DigitsValue(Unsigned(text), 0)

\* float(text), for texts in decimal notation (digits and one point, no
\* exponent): the float m / 10^d is Real(m, d).
IsFloatText(text) ==
    LET body == Unsigned(text) IN
    /\ \A i \in 1..Len(body) : body[i] \in Range(Digits) \cup {"."}
    /\ Cardinality({i \in 1..Len(body) : body[i] = "."}) = 1
    /\ \E i \in 1..Len(body) : body[i] \in Range(Digits)
FloatValue(text) ==
    LET body == Unsigned(text)
        point == CHOOSE i \in 1..Len(body) : body[i] = "."
        m == DigitsValue(SubSeq(body, 1, point - 1)
                         \o SubSeq(body, point + 1, Len(body)), 0)
    IN  Real(IF Head(text) = "-" THEN 0 - m ELSE m, Len(body) - point)

valid_symbol(s) == s # <<>> /\ \A i \in 1..Len(s) : s[i] \in SYMBOL_CHARS

\* The body of the loop of tokenize: the token a candidate text stands for.
Token(text) ==
    IF Text(text) \in DELIMITERS THEN Ok(Sym(Text(text)))
    ELSE IF Text(text) = "#t" \/ LowerText(text) = "true" THEN Ok(Bool(TRUE))
    ELSE IF Text(text) = "#f" \/ LowerText(text) = "false"
    THEN Ok(Bool(FALSE))
    ELSE IF Text(text) = "nil" THEN Ok(Sym("nil"))
    ELSE IF text[1] \in SYMBOL_CHARS
    THEN IF text[1] \in NUMERAL_STARTS /\ IsIntText(text)
         THEN Ok(Integer(IntValue(text)))
         ELSE IF text[1] \in NUMERAL_STARTS /\ IsFloatText(text)
         THEN Ok(FloatValue(text))
         ELSE IF valid_symbol(text) THEN Ok(Sym(LowerText(text)))
         ELSE Raise("ValueError", "invalid numeral or symbol")
    ELSE IF text[1] \in STRING_DELIMS
    THEN Ok(Str(Text(SubSeq(text, 2, Len(text) - 1))))
    ELSE Raise("ValueError", "warning: invalid token")

RECURSIVE TokensFrom(_, _, _)
TokensFrom(line, k, result) ==
    LET c == next_candidate_token(line, k) IN
    IF ~IsOk(c) THEN c
    ELSE IF c.tok = NoToken THEN Ok(result)
    ELSE IF ~IsOk(Token(c.tok)) THEN Token(c.tok)
    ELSE TokensFrom(line, c.k, Append(result, Token(c.tok).val))

tokenize(line) == TokensFrom(line, 1, <<>>)

(***************************************************************************)
(* Parser (scm_parser.py).  The parser p holds its token buffer            *)
(* current_line and the line stream: the lines not yet read, tokenized as  *)
(* they are read, and how the stream ends: "stop" when the iterator is     *)
(* exhausted (StopIteration), "eof" when it raises EOFError.  A call       *)
(* returns a value, raises, or (kind "hang") never returns; each outcome   *)
(* carries the parser as the call left it.                                 *)
(***************************************************************************)
Parser(tokens, lines, end) ==
    [current_line |-> tokens, lines |-> lines, end |-> end]
Parsed(val, p) == [kind |-> "ok", val |-> val, p |-> p]
ParseRaise(exc, msg, p) == [kind |-> "raise", exc |-> exc, msg |-> msg, p |-> p]
Pop(p) == [p EXCEPT !.current_line = Tail(@)]

is_empty(p) == p.current_line = <<>>

\* read_until_not_empty, with read_line and the stream's next().
RECURSIVE read_until_not_empty(_)
read_until_not_empty(p) ==
    IF ~is_empty(p) THEN Parsed(None, p)
    ELSE IF p.lines = <<>>
    THEN IF p.end = "stop" THEN [kind |-> "hang", p |-> p]
         ELSE ParseRaise("EOFError", "", p)
    ELSE LET t == tokenize(Head(p.lines))
             q == [p EXCEPT !.lines = Tail(@)]
         IN  IF ~IsOk(t) THEN ParseRaise(t.exc, t.msg, q)
             ELSE read_until_not_empty([q EXCEPT !.current_line = t.val])

IsDelimiter(tok) == is_scheme_symbol(tok) /\ tok[2] \in DELIMITERS

RECURSIVE expr(_), rest_list(_)

\* expr, line 71: the quoted expression e.
Quoted(e) ==
    IF e.kind # "ok" THEN e
    ELSE Parsed(Pair(Sym("quote"), Pair(e.val, nil)), e.p)

\* expr, lines 56-78, once the first token tok is popped.
ExprFrom(tok, q) ==
    IF tok = Sym("nil") THEN Parsed(nil, q)
    ELSE IF tok = Sym("(") THEN rest_list(q)
    ELSE IF tok = Sym("'") THEN Quoted(expr(q))
    ELSE IF ~IsDelimiter(tok) THEN Parsed(tok, q)
    ELSE ParseRaise("SyntaxError", "unexpected token", q)

\* expr, once read_until_not_empty has returned f.
ExprAt(f) ==
    IF f.kind # "ok" THEN f ELSE ExprFrom(Head(f.p.current_line), Pop(f.p))

expr(p) == ExprAt(read_until_not_empty(p))

CloseDottedKeeps(e, g) ==
    IF g.kind # "ok" THEN g
    ELSE IF Head(g.p.current_line) # Sym(")")
    THEN ParseRaise("SyntaxError", "expected one element after .", Pop(g.p))
    ELSE Parsed(e.val, g.p)

\* rest_list, lines 98-109: after ". e", the token that must close the list.
CloseDotted(e, g) ==
    IF g.kind # "ok" THEN g
    ELSE IF Head(g.p.current_line) # Sym(")")
    THEN ParseRaise("SyntaxError", "expected one element after .", Pop(g.p))
    ELSE Parsed(e.val, Pop(g.p))

Dotted(e) ==
    IF e.kind # "ok" THEN e ELSE CloseDotted(e, read_until_not_empty(e.p))

\* rest_list, lines 117-127: Pair(first, rest).
ConsRest(first, rest) ==
    IF rest.kind # "ok" THEN rest
    ELSE Parsed(Pair(first.val, rest.val), rest.p)

ConsFirst(first) ==
    IF first.kind # "ok" THEN first
    ELSE ConsRest(first, rest_list(first.p))

\* rest_list's try block, once read_until_not_empty has returned f.
RestListAt(f) ==
    IF f.kind # "ok" THEN f
    ELSE IF Head(f.p.current_line) = Sym(")") THEN Parsed(nil, Pop(f.p))
    ELSE IF Head(f.p.current_line) = Sym(".") THEN Dotted(expr(Pop(f.p)))
    ELSE ConsFirst(expr(f.p))

\* rest_list: what its `except EOFError` makes of the try block's outcome.
ExceptEOF(r) ==
    IF r.kind = "raise" /\ r.exc = "EOFError"
    THEN ParseRaise("SyntaxError", "unexpected end of file", r.p)
    ELSE r

rest_list(p) == ExceptEOF(RestListAt(read_until_not_empty(p)))

\* Parser.parse(lines_stream).
parse(p) == expr(p)


(***************************************************************************)
(* Sessions.  A session evaluates, one after the other, the expressions of *)
(* its prelude and then up to MaxInputs expressions chosen freely among    *)
(* its inputs, each by scheme_eval(expr, the_global_env) as in the         *)
(* doctests of eval_apply.py.                                              *)
(***************************************************************************)
L(s) == scheme_list(s)
Quote(e) == L(<<Sym("quote"), e>>)
Define(target, e) == L(<<Sym("define"), target, e>>)

\* setup_environment: the global frame binds undefined and the primitives.
GlobalBindings ==
    ("undefined" :> None)
    @@ [name \in HostFunctions
                 \cup {"eval", "apply", "map", "filter", "reduce", "force",
                       "stream-cdr", "stream-map", "stream-filter",
                       "stream-reduce"}
          |-> PrimitiveProcedure(name)]

the_global_env == <<1>>

\* (define (loop n) (if (= n 0) 'done (loop (- n 1))))
DefLoop ==
    Define(L(<<Sym("loop"), Sym("n")>>),
           L(<<Sym("if"), L(<<Sym("="), Sym("n"), Integer(0)>>),
               Quote(Sym("done")),
               L(<<Sym("loop"), L(<<Sym("-"), Sym("n"), Integer(1)>>)>>)>>))

LoopCall(n) == L(<<Sym("loop"), Integer(n)>>)

\* lexical scope: make-adder, add3 and a caller whose parameter is n
DefMakeAdder ==
    Define(L(<<Sym("make-adder"), Sym("n")>>),
           L(<<Sym("lambda"), L(<<Sym("x")>>),
               L(<<Sym("+"), Sym("x"), Sym("n")>>)>>))
DefAdd3 == Define(Sym("add3"), L(<<Sym("make-adder"), Integer(3)>>))
DefCaller(name, callee) ==
    Define(L(<<Sym(name), Sym("n")>>), L(<<Sym(callee), Integer(10)>>))
DefineN == Define(Sym("n"), Integer(1))
SetN == L(<<Sym("set!"), Sym("n"), Integer(2)>>)
CallAdd3 == L(<<Sym("add3"), Integer(10)>>)
CallCaller == L(<<Sym("caller"), Integer(5)>>)
LetCall(callee) ==
    L(<<Sym("let"), L(<<L(<<Sym("n"), Integer(7)>>)>>),
        L(<<Sym(callee), Integer(10)>>)>>)

\* dynamic scope: (define dadd (let ((n 100)) (dlambda (x) (+ x n))))
DefDAdd ==
    Define(Sym("dadd"),
           L(<<Sym("let"), L(<<L(<<Sym("n"), Integer(100)>>)>>),
               L(<<Sym("dlambda"), L(<<Sym("x")>>),
                   L(<<Sym("+"), Sym("x"), Sym("n")>>)>>)>>))
CallDAdd == L(<<Sym("dadd"), Integer(10)>>)
CallDCaller == L(<<Sym("dcaller"), Integer(5)>>)

\* shared frames: read-x and the counter c
DefX == Define(Sym("x"), Integer(1))
DefReadX == Define(L(<<Sym("read-x")>>), Sym("x"))
SetX == L(<<Sym("set!"), Sym("x"), Integer(2)>>)
CallReadX == L(<<Sym("read-x")>>)
Incr(v) == L(<<Sym("set!"), Sym(v), L(<<Sym("+"), Sym(v), Integer(1)>>)>>)
DefC ==
    Define(Sym("c"),
           L(<<Sym("let"), L(<<L(<<Sym("n"), Integer(0)>>)>>),
               L(<<Sym("lambda"), nil, Incr("n"), Sym("n")>>)>>))
CallC == L(<<Sym("c")>>)

\* if: predicate, consequent and alternative each count their evaluations
Counting(v, e) == L(<<Sym("begin"), Incr(v), e>>)
IfValues == {Bool(TRUE), Bool(FALSE), Integer(0), nil, Str("")}
IfExpr(v, alt) ==
    IF alt
    THEN L(<<Sym("if"), Counting("hp", v), Counting("hc", Quote(Sym("c"))),
             Counting("ha", Quote(Sym("a")))>>)
    ELSE L(<<Sym("if"), Counting("hp", v), Counting("hc", Quote(Sym("c")))>>)
DefCounter(v) == Define(Sym(v), Integer(0))

\* deferred tail calls met by map, filter, reduce, force, eval and apply
DefF == Define(L(<<Sym("f"), Sym("x")>>), L(<<Sym("+"), Sym("x"), Integer(1)>>))
DefZ == Define(L(<<Sym("z"), Sym("x")>>), L(<<Sym("="), Sym("x"), Integer(0)>>))
DefG ==
    Define(L(<<Sym("g"), Sym("a"), Sym("b")>>),
           L(<<Sym("+"), Sym("a"), Sym("b")>>))
ApplyF == L(<<Sym("apply"), Sym("f"), Quote(L(<<Integer(1)>>))>>)
EvalF == L(<<Sym("eval"), Quote(L(<<Sym("f"), Integer(1)>>))>>)
MapF == L(<<Sym("map"), Sym("f"), Quote(L(<<Integer(0), Integer(1)>>))>>)
MapEval ==
    L(<<Sym("map"), Sym("eval"), Quote(L(<<L(<<Sym("f"), Integer(1)>>)>>))>>)
FilterZ == L(<<Sym("filter"), Sym("z"), Quote(L(<<Integer(0), Integer(1)>>))>>)
ReduceG ==
    L(<<Sym("reduce"), Sym("g"),
        Quote(L(<<Integer(1), Integer(2), Integer(0)>>))>>)
ForceDelay ==
    L(<<Sym("force"), L(<<Sym("delay"), L(<<Sym("f"), Integer(1)>>)>>)>>)
ForceTwice == L(<<Sym("force"), ForceDelay>>)
DefineV == Define(Sym("v"), ApplyF)
ConsF == L(<<Sym("cons"), EvalF, L(<<Sym("list"), ApplyF>>)>>)

\* and/or: the i-th operand records i in front of the list log, then yields
\* false or a value that is not false (0 for the first operand)
DefLog == Define(Sym("log"), nil)
OperandValue(i, b) == IF b THEN Integer(i - 1) ELSE Bool(FALSE)
Logged(i, v) ==
    L(<<Sym("begin"),
        L(<<Sym("set!"), Sym("log"),
            L(<<Sym("cons"), Integer(i), Sym("log")>>)>>),
        v>>)
OperandLists == UNION {[1..n -> BOOLEAN] : n \in 0..MaxArgs}
AndOrForm(name, bs) ==
    scheme_cons(Sym(name),
                L([i \in 1..Len(bs) |-> Logged(i, OperandValue(i, bs[i]))]))

\* filter with a predicate whose result is the same value for every element
PredValues ==
    {Bool(FALSE), Bool(TRUE), Integer(0), nil, Str(""), Sym("undefined")}
FilterConst(v) ==
    L(<<Sym("filter"), L(<<Sym("lambda"), L(<<Sym("x")>>), v>>),
        Quote(L(<<Integer(1), Integer(2)>>))>>)

\* macros: m records the operand expression it receives in log and expands
\* to (+ <operand> n); it is called with an operand that records 7 in log
DefMacro(call, body) == scheme_cons(Sym("define-macro"), scheme_cons(call, body))
DefM ==
    DefMacro(L(<<Sym("m"), Sym("e")>>),
             L(<<L(<<Sym("set!"), Sym("log"),
                     L(<<Sym("cons"), Sym("e"), Sym("log")>>)>>),
                 L(<<Sym("list"), Quote(Sym("+")), Sym("e"),
                     Quote(Sym("n"))>>)>>))
MOperand == Logged(7, Integer(5))
CallM == L(<<Sym("m"), MOperand>>)
LetCallM ==
    L(<<Sym("let"), L(<<L(<<Sym("n"), Integer(10)>>)>>), CallM>>)

\* a macro with a dotted parameter list
DefWhen ==
    DefMacro(Pair(Sym("when"), Pair(Sym("p"), Sym("body"))),
             L(<<L(<<Sym("list"), Quote(Sym("if")), Sym("p"),
                     L(<<Sym("cons"), Quote(Sym("begin")), Sym("body")>>),
                     Quote(Sym("undefined"))>>)>>))
CallWhen ==
    L(<<Sym("when"), Bool(TRUE), Integer(1), Integer(2), Integer(3)>>)

\* streams
ConsStream(a, b) == L(<<Sym("cons-stream"), a, b>>)
DefOnes == Define(Sym("ones"), ConsStream(Integer(1), Sym("ones")))
DefIntsFrom ==
    Define(L(<<Sym("ints-from"), Sym("n")>>),
           ConsStream(Sym("n"),
                      L(<<Sym("ints-from"),
                          L(<<Sym("+"), Sym("n"), Integer(1)>>)>>)))
DefS ==
    Define(Sym("s"),
           ConsStream(Counting("ha", Integer(1)), Counting("hb", Integer(2))))
StreamCar(e) == L(<<Sym("stream-car"), e>>)
StreamCdr(e) == L(<<Sym("stream-cdr"), e>>)
CarCdrOnes == StreamCar(StreamCdr(Sym("ones")))
Ints12 ==
    StreamCar(StreamCdr(StreamCdr(L(<<Sym("ints-from"), Integer(10)>>))))

\* special forms with a malformed operand list
Form(name, operands) == Pair(Sym(name), L(operands))

\* stream-map, stream-filter and stream-reduce on a stream of the elements
\* 1..k whose i-th tail logs i when forced and whose last tail is `end`, on
\* ones, on nil and on a list.
DefInc ==
    Define(L(<<Sym("inc"), Sym("x")>>), L(<<Sym("+"), Sym("x"), Integer(1)>>))
DefIs2 ==
    Define(L(<<Sym("is2"), Sym("x")>>), L(<<Sym("="), Sym("x"), Integer(2)>>))
RECURSIVE StreamFrom(_, _, _)
StreamFrom(i, k, end) ==
    IF i > k THEN end
    ELSE ConsStream(Integer(i), Logged(i, StreamFrom(i + 1, k, end)))
StreamOps == {"stream-map", "stream-filter", "stream-reduce"}
StreamProc(op) ==
    CASE op = "stream-map" -> Sym("inc")
      [] op = "stream-filter" -> Sym("is2")
      [] op = "stream-reduce" -> Sym("+")
StreamForm(op, s) == L(<<Sym(op), StreamProc(op), s>>)
StreamArgs ==
    {StreamFrom(1, k, end) : k \in 1..MaxN, end \in {nil, Integer(0)}}
    \cup {Sym("ones"), nil, L(<<Sym("list"), Integer(1), Integer(2)>>)}
StreamForms == {StreamForm(op, s) : op \in StreamOps, s \in StreamArgs}

\* Applications and let forms of up to MaxArgs operands or bindings.  The
\* i-th operand or initializer logs i and is the variable a, defined as 100
\* before, or the number i, as bs[i] says; the operator of an application
\* logs 0 and is the primitive list or a lambda expression, whose body, as
\* the body of the let, logs 9 and returns the list of its variables.
Names == <<"a", "b", "c", "d">>
DefA == Define(Sym("a"), Integer(100))
Operands(bs) ==
    [i \in 1..Len(bs) |-> Logged(i, IF bs[i] THEN Sym("a") ELSE Integer(i))]
Variables(n) == [i \in 1..n |-> Sym(Names[i])]
Body(n) == Logged(9, scheme_cons(Sym("list"), L(Variables(n))))
Application(op, bs) == scheme_cons(Logged(0, op), L(Operands(bs)))
LambdaExpr(n) == L(<<Sym("lambda"), L(Variables(n)), Body(n)>>)
Let(bs) ==
    L(<<Sym("let"),
        L([i \in 1..Len(bs) |-> L(<<Sym(Names[i]), Operands(bs)[i]>>)]),
        Body(Len(bs))>>)
OrderForms ==
    UNION {{Application(Sym("list"), bs), Application(LambdaExpr(Len(bs)), bs),
            Let(bs)} : bs \in OperandLists}

\* cond forms of up to MaxClauses clauses and an optional else clause.  The
\* clause i of a form is described by c: its predicate logs 10i and is
\* false or i as c.p says, and its c.n actions log and return 10i + 1, ...;
\* the action of the else clause logs and returns 90.
CondClauses ==
    UNION {[1..n -> [p : BOOLEAN, n : {0, 1, 2}]] : n \in 0..MaxClauses}
Predicate(i, c) == Logged(10 * i, IF c.p THEN Integer(i) ELSE Bool(FALSE))
Actions(i, c) == [j \in 1..c.n |-> Logged((10 * i) + j, Integer((10 * i) + j))]
ElseAction == Logged(90, Integer(90))
Cond(cs, els) ==
    scheme_cons(Sym("cond"),
                L([i \in 1..Len(cs) |-> scheme_cons(Predicate(i, cs[i]),
                                                    L(Actions(i, cs[i])))]
                  \o (IF els THEN <<L(<<Sym("else"), ElseAction>>)>>
                      ELSE <<>>)))

\* The nested if of the clauses from the i-th on, whose bodies are begin
\* forms; without an else clause the innermost if has the alternatives
\* alt, a sequence of no or one expression.
Begin(actions) == scheme_cons(Sym("begin"), L(actions))
RECURSIVE NestedIf(_, _, _, _)
NestedIf(cs, i, els, alt) ==
    L(<<Sym("if"), Predicate(i, cs[i]), Begin(Actions(i, cs[i]))>>
      \o (IF i < Len(cs) THEN <<NestedIf(cs, i + 1, els, alt)>>
          ELSE IF els THEN <<Begin(<<ElseAction>>)>>
          ELSE alt))
WithBodies == {cs \in CondClauses : cs # <<>> /\ \A i \in 1..Len(cs) : cs[i].n > 0}
CondForms ==
    {Cond(cs, els) : cs \in CondClauses, els \in BOOLEAN}
    \cup {NestedIf(cs, 1, els, alt) :
            cs \in WithBodies, els \in BOOLEAN,
            alt \in {<<>>, <<Sym("undefined")>>}}

\* Quasiquote templates of at most k nested forms, read at quasiquote depth
\* d: the symbol a, the expression Counted, which counts its evaluations in
\* hp and is 7, a list (b t), a pair (t . c), (quasiquote t), and (unquote
\* t), where t is Counted where the depth drops to 0.
Counted == Counting("hp", Integer(7))
RECURSIVE Templates(_, _)
Templates(d, k) ==
    {Sym("a"), Counted}
    \cup (IF k = 0 THEN {}
          ELSE {L(<<Sym("b"), t>>) : t \in Templates(d, k - 1)}
               \cup {Pair(t, Sym("c")) : t \in Templates(d, k - 1)}
               \cup {L(<<Sym("quasiquote"), t>>) : t \in Templates(d + 1, k - 1)}
               \cup (IF d = 1 THEN {L(<<Sym("unquote"), Counted>>)}
                     ELSE {L(<<Sym("unquote"), t>>) :
                             t \in Templates(d - 1, k - 1)}))
Quasiquote(t) == L(<<Sym("quasiquote"), t>>)
QuasiquoteForms ==
    {Quasiquote(t) : t \in Templates(1, MaxNest)}
    \cup {L(<<Sym("unquote"), Counted>>), L(<<Sym("quasiquote")>>),
          Quasiquote(L(<<Sym("unquote")>>))}

\* Calls of the arithmetic primitives on up to two numbers, those whose
\* result the model's arithmetic gives exactly: a quotient is a decimal of
\* at most MaxDigits decimals and an exponent has an integral value.
ArithOps ==
    {"+", "-", "*", "/", "abs", "expt", "modulo", "quotient", "remainder"}
ArithValues ==
    {Integer(6), Integer(3), Integer(2), Integer(0), Real(-2, 0), Real(15, 1),
     Real(5, 0)}
ExactDiv(x, y) ==
    IsZero(y) \/ Terminates(Mant(x, Max(Scale(x), Scale(y))),
                            Mant(y, Max(Scale(x), Scale(y))))
Exact(op, args) ==
    CASE op = "/" /\ Len(args) = 1 -> ExactDiv(Integer(1), args[1])
      [] op = "/" /\ Len(args) = 2 -> ExactDiv(args[1], args[2])
      [] op = "expt" /\ Len(args) = 2 ->
            /\ Scale(args[2]) = 0
            /\ args[2][2] < 0 =>
                  ExactDiv(Integer(1),
                           Number(TRUE, Power(args[1][2], Abs(args[2][2])),
                                  Scale(args[1]) * Abs(args[2][2])))
      [] OTHER -> TRUE
ArithForms ==
    {Form(op, args) : <<op, args>> \in
        {oa \in ArithOps \X UNION {[1..n -> ArithValues] : n \in 0..2} :
            Exact(oa[1], oa[2])}}
SetForms ==
    {Form("set!", <<>>), Form("set!", <<Sym("x")>>),
     Form("set!", <<Sym("x"), Integer(1), Integer(2)>>)}
MalformedForms ==
    {Form("if", <<>>), Form("quote", <<>>),
     Form("quote", <<Sym("a"), Sym("b")>>), Form("begin", <<>>),
     Form("define", <<Sym("x")>>), Form("let", <<>>),
     Form("lambda", <<L(<<Sym("x")>>)>>), Form("delay", <<>>),
     Form("cons-stream", <<Integer(1)>>)} \cup SetForms

Scenarios ==
    {"loop", "adder", "dyn", "share", "if", "tp", "andor", "filter", "macro",
     "when", "text", "stream", "forms", "arith", "quasi",
     "cond", "order", "whole"}

Prelude(sc) ==
    CASE sc = "loop" -> <<DefLoop>>
      [] sc = "adder" -> <<DefMakeAdder, DefAdd3, DefCaller("caller", "add3")>>
      [] sc = "dyn" -> <<DefDAdd, DefCaller("dcaller", "dadd")>>
      [] sc = "share" -> <<DefX, DefReadX, DefC>>
      [] sc = "if" -> <<DefCounter("hp"), DefCounter("hc"), DefCounter("ha")>>
      [] sc = "tp" -> <<DefF, DefZ, DefG>>
      [] sc = "andor" -> <<DefLog>>
      [] sc = "filter" -> <<>>
      [] sc = "macro" -> <<DefLog, DefineN, DefM>>
      [] sc = "when" -> <<DefWhen>>
      [] sc = "text" -> <<>>
      [] sc = "forms" -> <<DefX>>
      [] sc = "arith" -> <<>>
      [] sc = "quasi" -> <<DefCounter("hp")>>
      [] sc = "cond" -> <<DefLog>>
      [] sc = "order" -> <<DefLog, DefA>>
      [] sc = "whole" -> <<DefLog, DefOnes, DefInc, DefIs2>>
      [] sc = "stream" ->
            <<DefCounter("ha"), DefCounter("hb"), DefOnes, DefIntsFrom, DefS>>

FreeInputs(sc) ==
    CASE sc = "loop" -> {LoopCall(n) : n \in 0..MaxN}
      [] sc = "adder" ->
            {DefineN, SetN, CallAdd3, CallCaller, LetCall("add3")}
      [] sc = "dyn" -> {DefineN, CallDAdd, CallDCaller, LetCall("dadd")}
      [] sc = "share" -> {SetX, CallReadX, CallC}
      [] sc = "if" -> {IfExpr(v, alt) : v \in IfValues, alt \in BOOLEAN}
      [] sc = "tp" ->
            {MapF, MapEval, FilterZ, ReduceG, ForceDelay, ForceTwice, DefineV,
             ConsF}
      [] sc = "andor" ->
            {AndOrForm(name, bs) : name \in {"and", "or"}, bs \in OperandLists}
      [] sc = "filter" -> {FilterConst(v) : v \in PredValues}
      [] sc = "macro" -> {CallM, LetCallM}
      [] sc = "when" -> {CallWhen}
      [] sc = "text" -> {}
      [] sc = "forms" -> MalformedForms
      [] sc = "arith" -> ArithForms
      [] sc = "quasi" -> QuasiquoteForms
      [] sc = "cond" -> CondForms
      [] sc = "order" -> OrderForms
      [] sc = "whole" -> StreamForms
      [] sc = "stream" -> {StreamCar(Sym("s")), StreamCdr(Sym("s")), CarCdrOnes, Ints12}

\* Source lines, as sequences of characters.
BackquoteLine ==
    <<Backquote, "(", "1", " ", ",", "(", "+", " ", "2", " ", "3", ")", " ",
      "4", ")">>
SumLine == <<"(", "+", " ", "1", " ", "2", ")">>
QuoteLine == <<"'", "(", "C", "a", "r", " ", ".", " ", "-", "1", "_", "0", ")">>
OpenLine == <<"(", "+", " ", "1">>
DefineLine == <<"(", "d", "e", "f", "i", "n", "e", " ", "x", " ", "1", ")">>
StringLine == <<"\"", "a", " ", "b", "\"", " ", ";", "x">>
BadLine == <<"x", " ", "]">>
TextInputs(sc) ==
    IF sc = "text"
    THEN {BackquoteLine, SumLine, QuoteLine, OpenLine, DefineLine, StringLine,
          BadLine}
    ELSE {}

\* The number of free inputs of a session.
Budget(sc) ==
    CASE sc = "share" -> MaxInputs + 3
      [] sc = "adder" -> MaxInputs + 1
      [] sc \in {"andor", "filter", "macro", "when", "forms", "arith",
                 "quasi", "cond", "order", "whole"} -> 1
      [] OTHER -> MaxInputs

InitEval ==
    /\ frames = <<GlobalBindings>>
    /\ envs = {the_global_env}
    /\ last = NoOp
    /\ nin = 0
    /\ stack = <<>>
    /\ ret = None
    /\ retFrom = NoCall
    /\ status = "idle"
    /\ out = <<>>
    /\ scen \in Scenarios
    /\ ReplIdle

\* One top-level expression is read and handed to scheme_eval.
ReadEval ==
    /\ status = "idle"
    /\ nin < Len(Prelude(scen)) + Budget(scen)
    /\ \E e \in (IF nin < Len(Prelude(scen)) THEN {Prelude(scen)[nin + 1]}
                 ELSE FreeInputs(scen)) :
          /\ stack' = <<Rec("scheme_eval", e, the_global_env, FALSE, None)>>
          /\ out' = Append(out, [expr |-> e, kind |-> "pending", val |-> None])
    /\ status' = "running"
    /\ nin' = nin + 1
    /\ UNCHANGED <<frames, envs, last, ret, retFrom, scen, replVars>>

\* One source line is read and evaluated as in
\* scheme_eval(parser.parse(iter([tokenizer.tokenize(text)])), env): the
\* stream holds the one line and then is exhausted.
ReadText ==
    /\ status = "idle"
    /\ nin < Len(Prelude(scen)) + Budget(scen)
    /\ \E line \in TextInputs(scen) :
          LET r == parse(Parser(<<>>, <<line>>, "stop"))
              run == [expr |-> Str(Text(line)), kind |-> "pending",
                      val |-> None]
          IN  CASE r.kind = "ok" ->
                     /\ stack' = <<Rec("scheme_eval", r.val, the_global_env,
                                       FALSE, None)>>
                     /\ out' = Append(out, run)
                     /\ status' = "running"
                [] r.kind = "raise" ->
                     /\ out' = Append(out,
                                  [run EXCEPT !.kind = "error",
                                       !.val = <<"exception", r.exc, r.msg>>])
                     /\ UNCHANGED <<stack, status>>
                [] r.kind = "hang" ->
                     /\ out' = Append(out, run)
                     /\ status' = "hang"
                     /\ UNCHANGED stack
    /\ nin' = nin + 1
    /\ UNCHANGED <<frames, envs, last, ret, retFrom, scen, replVars>>

NextEval ==
    \/ ReadEval
    \/ ReadText
    \/ scheme_eval
    \/ original_scheme_eval
    \/ Pair_map
    \/ scheme_apply
    \/ PrimitiveProcedure_apply
    \/ eval_if
    \/ eval_sequence
    \/ eval_definition
    \/ eval_lambda
    \/ eval_quote
    \/ complete_apply
    \/ scheme_map
    \/ scheme_filter
    \/ scheme_reduce
    \/ scheme_force
    \/ eval_begin
    \/ eval_let
    \/ eval_assignment
    \/ eval_dlambda_form
    \/ eval_delay
    \/ eval_and
    \/ eval_or
    \/ eval_macro_definition
    \/ eval_cons_stream
    \/ eval_cond
    \/ quasiquote_item
    \/ stream_map
    \/ stream_filter
    \/ stream_reduce
    \/ eval_quasiquote
    \/ eval_unquote

SpecEval == InitEval /\ [][NextEval]_vars

(***************************************************************************)
(* The read-eval-print loop (tiny_scm.py).  printed holds the lines that   *)
(* print() wrote; the prompts, which input() writes, are not recorded.     *)
(***************************************************************************)
\* str(n) of an int.
RECURSIVE NatStr(_)
NatStr(n) ==
    IF n < 10 THEN Digits[n + 1] ELSE NatStr(n \div 10) \o Digits[(n % 10) + 1]
IntStr(n) == IF n < 0 THEN "-" \o NatStr(0 - n) ELSE NatStr(n)

\* str(x) of the float m / 10^d: integer part, point, d fraction digits.
RECURSIVE Fraction(_, _)
Fraction(f, d) ==
    IF d = 0 THEN "" ELSE Fraction(f \div 10, d - 1) \o Digits[(f % 10) + 1]
FloatStr(m, d) ==
    LET a == IF m < 0 THEN 0 - m ELSE m IN
    (IF m < 0 THEN "-" ELSE "") \o NatStr(a \div Pow10(d)) \o "."
    \o (IF d = 0 THEN "0" ELSE Fraction(a % Pow10(d), d))

\* The characters of a str.
Chars(s) == [i \in 1..Len(s) |-> SubSeq(s, i, i)]

\* repr(s)[1:-1] of a str s: repr quotes s with ' unless s holds a ' and no
\* ", and escapes the backslash, the quote it chose, and \n, \r, \t.
ReprQuote(s) ==
    IF "'" \in Range(Chars(s)) /\ "\"" \notin Range(Chars(s)) THEN "\""
    ELSE "'"
ReprChar(c, quote) ==
    CASE c = "\\" -> "\\\\"
      [] c = quote -> "\\" \o c
      [] c = "\n" -> "\\n"
      [] c = "\r" -> "\\r"
      [] c = "\t" -> "\\t"
      [] OTHER -> c
RECURSIVE ReprBody(_, _)
ReprBody(cs, quote) ==
    IF cs = <<>> THEN ""
    ELSE ReprChar(Head(cs), quote) \o ReprBody(Tail(cs), quote)

\* repl_str and Pair.__str__, for the values the parser builds.
RECURSIVE repl_str(_), RestStr(_)
repl_str(val) ==
    CASE val = Bool(TRUE) -> "#t"
      [] val = Bool(FALSE) -> "#f"
      [] val = None -> "undefined"
      [] is_scheme_string(val) ->
            "\"" \o ReprBody(Chars(val[2]), ReprQuote(val[2])) \o "\""
      [] IsFloat(val) -> FloatStr(val[2], val[3])
      [] is_scheme_number(val) -> IntStr(val[2])
      [] is_scheme_symbol(val) -> val[2]
      [] is_scheme_null(val) -> "()"
      [] is_scheme_pair(val) ->
            "(" \o repl_str(val[2]) \o RestStr(val[3]) \o ")"
RestStr(rest) ==
    IF is_scheme_pair(rest) THEN " " \o repl_str(rest[2]) \o RestStr(rest[3])
    ELSE IF is_scheme_null(rest) THEN ""
    ELSE " . " \o repl_str(rest)

\* str(err): the message of the tokenizer's invalid-token error is three
\* lines, the second the source line and the third a caret.
MessageLines(msg) ==
    IF msg = "warning: invalid token"
    THEN <<msg, "    (the line)", "    ^">>
    ELSE <<msg>>

\* print("Error:", err)
ErrorLines(msg) ==
    <<"Error: " \o Head(MessageLines(msg))>> \o Tail(MessageLines(msg))

\* Lines 78-81: with report_errors, a SyntaxError leaves the loop as a
\* SchemeError.
AlwaysReraises(report_errors, exc) == exc = "SyntaxError"
Reraises(report_errors, exc) == report_errors /\ exc = "SyntaxError"

\* lines typed at the keyboard and files loaded
XLine == <<"x">>
TwoLine == <<"2", ")">>
CloseXLine == <<")", " ", "x">>
BadTokenLine == <<"#", "T">>
BadSymbolLine == <<"1", "a", "}">>
EmptyLine == <<>>
KeyboardLines ==
    {DefineLine, XLine, OpenLine, TwoLine, CloseXLine, BadTokenLine,
     BadSymbolLine, EmptyLine}
Files ==
    {<<>>, <<DefineLine, XLine>>, <<DefineLine, XLine, EmptyLine>>, <<OpenLine>>,
     <<OpenLine, TwoLine>>, <<CloseXLine>>, <<BadSymbolLine, XLine>>,
     <<BadTokenLine>>}

InitRepl ==
    /\ frames = <<GlobalBindings>>
    /\ envs = {the_global_env}
    /\ last = NoOp
    /\ nin = 0
    /\ stack = <<>>
    /\ ret = None
    /\ retFrom = NoCall
    /\ status = "idle"
    /\ out = <<>>
    /\ scen = "repl"
    /\ ReplIdle

\* main: the interactive loop, print_ast as the --ast option says.
main ==
    /\ loop = "none"
    /\ \E ast \in BOOLEAN :
          mode' = [report_errors |-> FALSE, quiet |-> FALSE, print_ast |-> ast]
    /\ loop' = "running"
    /\ UNCHANGED <<frames, envs, last, nin, evalVars, infile_lines,
                   current_line, stream, printed>>

\* scheme_load: the loop over the lines of a file, with report_errors.
scheme_load ==
    /\ loop = "none"
    /\ infile_lines' \in Files
    /\ mode' = [report_errors |-> TRUE, quiet |-> TRUE, print_ast |-> FALSE]
    /\ loop' = "running"
    /\ UNCHANGED <<frames, envs, last, nin, evalVars, current_line, stream,
                   printed>>

\* What the loop does with the outcome r of parser.parse(lines_stream); the
\* generator read so far is of the given kind, and `typed` lines came from
\* the keyboard.  last records whether input() was called: it was if a line
\* was typed or the end of input was met at the keyboard.
Iterate(r, kind, typed) ==
    /\ infile_lines' = IF kind = "file" THEN r.p.lines ELSE infile_lines
    /\ current_line' = r.p.current_line
    /\ nin' = nin + typed
    /\ CASE r.kind = "ok" ->
              /\ out' = Append(out, [expr |-> r.val, kind |-> "read",
                                     val |-> None])
              /\ printed' = IF ~mode.quiet /\ mode.print_ast
                            THEN Append(printed, repl_str(r.val))
                            ELSE printed
              /\ stream' = IF r.p.current_line = <<>> THEN "new"
                           ELSE IF stream = "new" /\ typed = 0
                                   /\ r.p.lines = infile_lines
                           THEN "new"
                           ELSE kind
              /\ loop' = loop
         [] r.kind = "raise" /\ r.exc = "EOFError" ->
              /\ printed' = Append(printed, "")
              /\ loop' = "returned"
              /\ stream' = "new"
              /\ out' = out
         [] r.kind = "raise"
            /\ r.exc \in {"SchemeError", "SyntaxError", "ValueError"} ->
              /\ out' = Append(out, [expr |-> None, kind |-> "error",
                                     val |-> <<"exception", r.exc, r.msg>>])
              /\ stream' = "new"
              /\ IF Reraises(mode.report_errors, r.exc)
                 THEN loop' = "raised" /\ printed' = printed
                 ELSE loop' = loop /\ printed' = printed \o ErrorLines(r.msg)
    /\ last' = [op |-> "read_input", kind |-> kind,
                input |-> typed > 0
                          \/ (kind = "keyboard" /\ r.kind = "raise"
                              /\ r.exc = "EOFError")]
    /\ UNCHANGED <<frames, envs, stack, ret, retFrom, status, scen, mode>>

\* One pass of the inner loop of read_eval_print_loop, with its handlers.
\* read_input yields the lines of the file, and raises EOFError after the
\* last, when infile_lines is not empty at its first next(); else it yields
\* what is typed: the lines ls, and EOFError (end of input at the keyboard)
\* if the parser asks for more.
read_eval_print_loop ==
    /\ loop = "running"
    /\ IF stream = "file" \/ (stream = "new" /\ infile_lines # <<>>)
       THEN Iterate(parse(Parser(current_line, infile_lines, "eof")),
                    "file", 0)
       ELSE \E n \in 0..(MaxLines - nin) : \E ls \in [1..n -> KeyboardLines] :
               LET r == parse(Parser(current_line, ls, "eof")) IN
               /\ r.p.lines = <<>>
               /\ Iterate(r, "keyboard", n)

NextRepl == main \/ scheme_load \/ read_eval_print_loop

SpecRepl == InitRepl /\ [][NextRepl]_vars


(***************************************************************************)
(* Reading (scm_tokenizer.py, scm_parser.py).  A session reads one line    *)
(* stream with one parser: infile_lines holds the source lines not yet     *)
(* read, current_line the parser's token buffer, and stream how the line   *)
(* stream ends ("stop" or "eof", as in Parser).  out records the outcome   *)
(* of each call of parse, last the latest call with the parser as it was   *)
(* before it.                                                              *)
(***************************************************************************)
ManyLine == <<"1", " ", "[", "a", "]", " ", "'", "b">>
DotOpenLine == <<"(", "a", " ", ".">>
DotCloseLine == <<"B", ")", " ", "(", "c">>
SourceLines ==
    {OpenLine, TwoLine, EmptyLine, ManyLine, DotOpenLine, DotCloseLine}
SourceChars == {"\"", "\\", ";", " ", "a", "1", ")"}
SourceStreams(sc) ==
    IF sc = "lines"
    THEN UNION {[1..n -> SourceLines] : n \in 0..MaxLines}
    ELSE {<<line>> : line \in UNION {[1..n -> SourceChars] : n \in 0..MaxChars}}

InitParse ==
    /\ frames = <<GlobalBindings>>
    /\ envs = {the_global_env}
    /\ last = NoOp
    /\ nin = 0
    /\ stack = <<>>
    /\ ret = None
    /\ retFrom = NoCall
    /\ status = "idle"
    /\ out = <<>>
    /\ scen \in {"lines", "chars"}
    /\ infile_lines \in SourceStreams(scen)
    /\ current_line = <<>>
    /\ stream \in (IF scen = "lines" THEN {"stop", "eof"} ELSE {"stop"})
    /\ printed = <<>>
    /\ mode = NoMode
    /\ loop = "none"

\* One call parser.parse(lines_stream).  A call that never returns leaves
\* the session hanging; after EOFError outside a list the session is over.
Parser_parse ==
    /\ status = "idle"
    /\ LET r == parse(Parser(current_line, infile_lines, stream)) IN
       /\ last' = [op |-> "parse", res |-> r,
                   p |-> Parser(current_line, infile_lines, stream)]
       /\ current_line' = r.p.current_line
       /\ infile_lines' = r.p.lines
       /\ out' = Append(out,
                   CASE r.kind = "ok" ->
                          [expr |-> r.val, kind |-> "read", val |-> None]
                     [] r.kind = "raise" ->
                          [expr |-> None, kind |-> "error",
                           val |-> <<"exception", r.exc, r.msg>>]
                     [] r.kind = "hang" ->
                          [expr |-> None, kind |-> "pending", val |-> None])
       /\ status' = IF r.kind = "hang" THEN "hang"
                    ELSE IF r.kind = "raise" /\ r.exc = "EOFError" THEN "done"
                    ELSE "idle"
    /\ nin' = nin + 1
    /\ UNCHANGED <<frames, envs, stack, ret, retFrom, scen, stream, printed,
                   mode, loop>>

\* The expression just read is printed with repl_str, and the printed line
\* is read back by a new parser, as in
\* parser.parse(iter([tokenizer.tokenize(repl_str(ast))])).
Reread ==
    /\ status = "idle"
    /\ last.op = "parse"
    /\ last.res.kind = "ok"
    /\ LET text == repl_str(last.res.val) IN
       /\ printed' = Append(printed, text)
       /\ last' = [op |-> "reread", expr |-> last.res.val, text |-> text,
                   res |-> parse(Parser(<<>>, <<Chars(text)>>, "stop"))]
    /\ UNCHANGED <<frames, envs, nin, evalVars, infile_lines, current_line,
                   stream, mode, loop>>

NextParse == Parser_parse \/ Reread

SpecParse == InitParse /\ [][NextParse]_vars


(***************************************************************************)
(* Properties of the evaluator                                             *)
(***************************************************************************)
Finished(i) == out[i].kind # "pending"
Yields(i, v) == out[i].kind = "value" /\ out[i].val = v
Runs(e) == {i \in 1..Len(out) : out[i].expr = e}

\* C1: (loop n) returns done for every n >= 0, and the nesting depth of host
\* calls reached while a session of the loop procedure runs never exceeds a
\* constant that is the same for every n.
C1_TailRecursionBounded ==
    /\ \A n \in 0..MaxN : \A i \in Runs(LoopCall(n)) :
          Finished(i) => Yields(i, Sym("done"))
    /\ scen = "loop" => Len(stack) <= 9

C1_Witness ==
    /\ \E i \in Runs(LoopCall(MaxN)) : Yields(i, Sym("done"))
    /\ \E i \in Runs(LoopCall(0)) : Yields(i, Sym("done"))

RECURSIVE HasTailPromise(_)
HasTailPromise(v) ==
    \/ IsTailPromise(v)
    \/ is_scheme_pair(v) /\ (HasTailPromise(v[2]) \/ HasTailPromise(v[3]))

\* C2: no TailPromise is user-visible: none is bound in a frame, none is the
\* first or rest of a Pair held by a frame, an argument list, a pending or
\* returned value or a result, none is an argument of a primitive or
\* compound procedure, and scheme_eval called with tail=False returns none.
C2_NoTailPromiseVisible ==
    /\ \A k \in 1..Len(frames) : \A var \in DOMAIN frames[k] :
          ~HasTailPromise(frames[k][var])
    /\ \A i \in 1..Len(stack) :
          /\ stack[i].fn \in {"scheme_apply", "PrimitiveProcedure_apply",
                              "complete_apply"}
                => ~HasTailPromise(stack[i].x)
          /\ is_scheme_pair(stack[i].x) => ~HasTailPromise(stack[i].x)
          /\ is_scheme_pair(stack[i].y) => ~HasTailPromise(stack[i].y)
          /\ stack[i].fn \in {"scheme_map_iter", "scheme_reduce_iter",
                              "original_scheme_eval", "Pair_map"}
                => ~IsTailPromise(stack[i].x) /\ ~IsTailPromise(stack[i].y)
    /\ is_scheme_pair(ret) => ~HasTailPromise(ret)
    /\ (retFrom.fn = "scheme_eval" /\ ~retFrom.tail) => ~IsTailPromise(ret)
    /\ retFrom.fn \in {"complete_apply", "scheme_map", "scheme_filter",
                       "scheme_reduce", "scheme_force"}
          => ~IsTailPromise(ret)
    /\ \A i \in 1..Len(out) : ~HasTailPromise(out[i].val)

C2_Witness ==
    /\ \E i \in Runs(MapF) : Yields(i, L(<<Integer(1), Integer(2)>>))
    /\ \E i \in Runs(DefineV) : Finished(i)
    /\ frames[1]["v"] = Integer(2)

\* The host call of scheme_apply at depth i has a compound procedure of the
\* given kind and is evaluating its body.
Applying(i, kind) ==
    /\ stack[i].fn = "scheme_apply"
    /\ Tag(stack[i].expr) = kind
    /\ stack[i + 1].fn = "eval_sequence"

\* C3: the body of a LambdaProcedure is evaluated in a new frame prepended
\* to the environment the lambda captured, whatever the call site; (add3 10)
\* is 13 from the top level, from a procedure whose parameter is n and from
\* a let that binds n, after any define/set! of n in the global frame.
C3_LexicalScope ==
    /\ \A i \in 1..(Len(stack) - 1) :
          Applying(i, "lambda") =>
             Tail(stack[i + 1].env) = stack[i].expr[4]
    /\ \A i \in Runs(CallAdd3) \cup Runs(CallCaller)
                  \cup Runs(LetCall("add3")) :
          Finished(i) => Yields(i, Integer(13))

C3_Witness ==
    /\ \E i \in Runs(DefineN) : \E j \in Runs(SetN) : \E k \in Runs(CallCaller) :
          i < j /\ j < k /\ Yields(j, None) /\ Yields(k, Integer(13))
    /\ frames[1]["n"] = Integer(2)

\* C4: the body of a DLambdaProcedure is evaluated in a new frame, binding
\* the parameters to the arguments, prepended to the environment of the
\* call site; the dlambda adder created where n is 100 adds 5 when called
\* from a procedure whose parameter n is 5, and 7 from a let binding n to 7.
C4_DynamicScope ==
    /\ \A i \in 1..(Len(stack) - 1) :
          Applying(i, "dlambda") =>
             /\ Tail(stack[i + 1].env) = stack[i].env
             /\ LET ps == Flatten(stack[i].expr[2])
                    as == Flatten(stack[i].x)
                    new == frames[Head(stack[i + 1].env)]
                IN  /\ DOMAIN new = {Key(ps[j]) : j \in 1..Len(ps)}
                    /\ \A j \in 1..Len(ps) : new[Key(ps[j])] = as[j]
    /\ \A i \in Runs(CallDCaller) : Finished(i) => Yields(i, Integer(15))
    /\ \A i \in Runs(LetCall("dadd")) : Finished(i) => Yields(i, Integer(17))

C4_Witness ==
    /\ \E i \in Runs(DefineN) : \E k \in Runs(CallDCaller) :
          i < k /\ Yields(k, Integer(15))
    /\ frames[1]["n"] = Integer(1)

\* C5: a closure reads and writes the frames it captured, not copies: (read-x)
\* yields 2 once (set! x 2) has run and 1 before, and the k-th call of the
\* counter c yields k.
C5_FramesSharedByReference ==
    /\ \A i \in Runs(CallReadX) :
          Finished(i) =>
             Yields(i, IF \E j \in Runs(SetX) : j < i THEN Integer(2)
                       ELSE Integer(1))
    /\ \A i \in Runs(CallC) :
          Finished(i) =>
             Yields(i, Integer(Cardinality({j \in Runs(CallC) : j <= i})))

C5_Witness ==
    /\ \E i \in Runs(SetX) : \E j \in Runs(CallReadX) :
          i < j /\ Yields(j, Integer(2))
    /\ \E i \in Runs(CallC) : Yields(i, Integer(3))

IfRuns(vs, alts) ==
    {i \in 1..Len(out) :
        \E v \in vs : \E alt \in alts : out[i].expr = IfExpr(v, alt)}

\* C10: after any session of if forms whose predicate, consequent and
\* alternative count their evaluations, the predicate was evaluated once per
\* form, the consequent once per form whose predicate value is not false
\* (0, the empty list and the empty string included) and the alternative
\* once per form whose predicate value is false; the form yields the value
\* of the branch it evaluated, and false when the alternative is absent.
C10_IfEvaluatesOneBranch ==
    (scen = "if" /\ status = "idle" /\ Len(out) >= Len(Prelude("if"))) =>
       /\ frames[1]["hp"] = Integer(Cardinality(IfRuns(IfValues, BOOLEAN)))
       /\ frames[1]["hc"] =
             Integer(Cardinality(IfRuns(IfValues \ {Bool(FALSE)}, BOOLEAN)))
       /\ frames[1]["ha"] =
             Integer(Cardinality(IfRuns({Bool(FALSE)}, {TRUE})))
       /\ \A i \in IfRuns(IfValues \ {Bool(FALSE)}, BOOLEAN) :
             Yields(i, Sym("c"))
       /\ \A i \in IfRuns({Bool(FALSE)}, {TRUE}) : Yields(i, Sym("a"))
       /\ \A i \in IfRuns({Bool(FALSE)}, {FALSE}) : Yields(i, Bool(FALSE))

C10_Witness ==
    /\ status = "idle"
    /\ \E i \in IfRuns({Integer(0), nil, Str("")}, {TRUE}) : Yields(i, Sym("c"))
    /\ \E i \in IfRuns({Bool(FALSE)}, {FALSE}) : Yields(i, Bool(FALSE))
    /\ frames[1]["hp"] = Integer(2)
    /\ frames[1]["hc"] = Integer(1)
    /\ frames[1]["ha"] = Integer(0)

\* The operand at which an and/or form with these operand values stops: the
\* first false one for and, the first not false one for or, else the last.
StopsAt(name, bs) ==
    LET stops == {i \in 1..Len(bs) : bs[i] = (name = "or")} IN
    IF stops = {} THEN Len(bs)
    ELSE CHOOSE i \in stops : \A j \in stops : i <= j

C12_FilterKeepsNotFalse ==
    \A v \in PredValues : \A i \in Runs(FilterConst(v)) :
       Finished(i) =>
          Yields(i, IF v = Bool(FALSE) THEN nil
                    ELSE L(<<Integer(1), Integer(2)>>))

\* C13: while the body of a MacroProcedure runs, its frame extends the
\* environment of the define-macro form and binds the parameter to the
\* operand expression, and the operand has not been evaluated; the
\* expansion is then evaluated once, in the environment of the call: the
\* call of m yields 5 + n for the n of the call site, and log holds the
\* operand's mark once, in front of the operand expression recorded first.
C13_MacroOperandsUnevaluated ==
    /\ \A i \in 1..(Len(stack) - 1) :
          Applying(i, "macro") =>
             /\ Tail(stack[i + 1].env) = stack[i].expr[4]
             /\ frames[Head(stack[i + 1].env)]["e"] = MOperand
             /\ frames[1]["log"] \in {nil, L(<<MOperand>>)}
    /\ \A i \in Runs(CallM) \cup Runs(LetCallM) :
          Finished(i) =>
             /\ Yields(i, IF out[i].expr = CallM THEN Integer(6)
                          ELSE Integer(15))
             /\ frames[1]["log"] = L(<<Integer(7), MOperand>>)

C13_Witness ==
    /\ \E i \in Runs(LetCallM) : Yields(i, Integer(15))
    /\ frames[1]["log"] = L(<<Integer(7), MOperand>>)

\* C14: (define-macro (when p . body) ...) succeeds and returns the name
\* when, and (when #t 1 2 3) then evaluates to 3.
C14_DottedMacroParameters ==
    /\ \A i \in Runs(DefWhen) : Finished(i) => Yields(i, Sym("when"))
    /\ \A i \in Runs(CallWhen) : Finished(i) => Yields(i, Integer(3))


\* C15: the source line `(1 ,(+ 2 3) 4) is accepted by the parser, and
\* reading and evaluating it produces the list (1 5 4).
C15_BackquoteCommaAccepted ==
    \A i \in Runs(Str(Text(BackquoteLine))) :
        Finished(i) => Yields(i, L(<<Integer(1), Integer(5), Integer(4)>>))

\* C16: cons-stream evaluates its first operand exactly once, when the form
\* is evaluated, and its second operand only when stream-cdr is applied,
\* once per application, in the environment of the form as it is then: the
\* definition of ones succeeds, (stream-car (stream-cdr ones)) is 1 and
\* (stream-car (stream-cdr (stream-cdr (ints-from 10)))) is 12.
C16_ConsStreamDefersRest ==
    /\ \A i \in Runs(DefOnes) : Finished(i) => Yields(i, Sym("ones"))
    /\ \A i \in Runs(CarCdrOnes) : Finished(i) => Yields(i, Integer(1))
    /\ \A i \in Runs(Ints12) : Finished(i) => Yields(i, Integer(12))
    /\ \A i \in Runs(StreamCar(Sym("s"))) : Finished(i) => Yields(i, Integer(1))
    /\ \A i \in Runs(StreamCdr(Sym("s"))) : Finished(i) => Yields(i, Integer(2))
    /\ \A i \in Runs(DefS) :
          /\ Finished(i) =>
                Yields(i, Sym("s")) /\ frames[1]["ha"] = Integer(1)
          /\ Runs(StreamCdr(Sym("s"))) = {} => frames[1]["hb"] = Integer(0)
          /\ status = "idle" =>
                frames[1]["hb"] = Integer(Cardinality(Runs(StreamCdr(Sym("s")))))

C16_Witness ==
    /\ \E i \in Runs(Ints12) : Yields(i, Integer(12))
    /\ \E i \in Runs(StreamCdr(Sym("s"))) :
          Yields(i, Integer(2)) /\ frames[1]["hb"] = Integer(1)
          /\ frames[1]["ha"] = Integer(1)

\* C17: force is idempotent: (force (force p)) evaluates without error to
\* the value of (force p); for p = (delay (f 1)) both are 2.
C17_ForceIdempotent ==
    /\ \A i \in Runs(ForceDelay) : Finished(i) => Yields(i, Integer(2))
    /\ \A i \in Runs(ForceTwice) : Finished(i) => Yields(i, Integer(2))

FormError(i) == out[i].kind = "error" /\ out[i].val[2] = "SchemeError"

\* C18: every special form validates the shape of its operand list: each of
\* (if), (quote), (quote a b), (begin), (set!), (set! x), (set! x 1 2),
\* (define x), (let), (lambda (x)), (delay), (cons-stream 1) raises a
\* SchemeError, not a host exception, and none succeeds.
C18_FormsValidateOperands ==
    \A e \in MalformedForms : \A i \in Runs(e) : Finished(i) => FormError(i)

(***************************************************************************)
(* Properties of the read-eval-print loop                                  *)
(***************************************************************************)
\* C19: the loop evaluates each top-level expression it reads, from the
\* keyboard or from a loaded file, in the environment it was given, before
\* it reads the next one: once (define x 1) is read the global frame binds
\* x to 1, and once x is read after it the value 1 is printed.
C19_ReplEvaluatesInputs ==
    (Len(out) >= 1 /\ out[1].expr = DefX) =>
        /\ "x" \in DOMAIN frames[1] /\ frames[1]["x"] = Integer(1)
        /\ (Len(out) >= 2 /\ out[2].expr = Sym("x")) =>
              \E k \in 1..Len(printed) : printed[k] = "1"

\* The step handles an error that parsing an input raised.
ErrorHandled ==
    /\ Len(out') = Len(out) + 1
    /\ out'[Len(out')].kind = "error"
    /\ out'[Len(out')].val[2] \in {"SchemeError", "SyntaxError", "ValueError"}
ErrorMessage == out'[Len(out')].val[3]

C21_PrintReadRoundTrip ==
    last.op = "reread" => last.res.kind = "ok" /\ last.res.val = last.expr

\* The tokens of the given source lines, in order.
RECURSIVE Toks(_)
Toks(lines) ==
    IF lines = <<>> THEN <<>>
    ELSE tokenize(Head(lines)).val \o Toks(Tail(lines))

\* The tokens c are those of one complete expression, whose AST is v.
Complete(c, v) ==
    LET r == parse(Parser(c, <<>>, "eof")) IN
    r.kind = "ok" /\ r.val = v /\ r.p.current_line = <<>>

\* C26: a call of parse that returns has consumed exactly the tokens of one
\* complete expression, from the front of the buffered tokens followed by
\* the tokens of the lines it read; it read a line only when the tokens
\* before that line did not complete the expression; the tokens after the
\* expression stay buffered, in order, for the next call; is_empty is true
\* exactly when no buffered token remains.
C26_ParseConsumesOneExpression ==
    (last.op = "parse" /\ last.res.kind = "ok") =>
       LET p == last.p
           q == last.res.p
           n == Len(p.lines) - Len(q.lines)
           read == SubSeq(p.lines, 1, n)
           avail == p.current_line \o Toks(read)
           k == Len(avail) - Len(q.current_line)
       IN  /\ n >= 0 /\ q.lines = SubSeq(p.lines, n + 1, Len(p.lines))
           /\ k >= 1 /\ q.current_line = SubSeq(avail, k + 1, Len(avail))
           /\ Complete(SubSeq(avail, 1, k), last.res.val)
           /\ n >= 1 =>
                 k > Len(p.current_line \o Toks(SubSeq(read, 1, n - 1)))
           /\ current_line = q.current_line /\ infile_lines = q.lines
           /\ is_empty(q) <=> Len(q.current_line) = 0

\* A call finds tokens left by the call before it, reads a line to complete
\* its expression, and an earlier call left tokens of its last line behind.
C26_Witness ==
    /\ last.op = "parse" /\ last.res.kind = "ok"
    /\ last.p.current_line # <<>>
    /\ Len(last.res.p.lines) < Len(last.p.lines)
    /\ Len(out) >= 2 /\ out[Len(out) - 1].kind = "read"
    /\ last.res.val = L(<<Sym("c"), Integer(2)>>)

\* The call of parse reached the end of the line stream: it never returns,
\* or raises at the end with every line read and every token consumed.
StreamEnded(r) ==
    \/ r.kind = "hang"
    \/ /\ r.kind = "raise"
       /\ r.p.lines = <<>> /\ r.p.current_line = <<>>
       /\ <<r.exc, r.msg>> \in {<<"EOFError", "">>,
                                <<"SyntaxError", "unexpected end of file">>}

\* The number of lists the tokens leave open.
RECURSIVE Depth(_)
Depth(toks) ==
    IF toks = <<>> THEN 0
    ELSE Depth(SubSeq(toks, 1, Len(toks) - 1))
         + (CASE toks[Len(toks)] = Sym("(") -> 1
              [] toks[Len(toks)] = Sym(")") -> -1
              [] OTHER -> 0)

\* C27: if the line stream ends while a list is still open, parse raises
\* SyntaxError 'unexpected end of file' and never loops, whether the stream
\* ends by being exhausted or by raising the end-of-input condition.
C27_OpenListAtEndRaises ==
    (/\ last.op = "parse"
     /\ StreamEnded(last.res)
     /\ Depth(last.p.current_line \o Toks(last.p.lines)) > 0)
    => /\ last.res.kind = "raise"
       /\ last.res.exc = "SyntaxError"
       /\ last.res.msg = "unexpected end of file"

\* The text of the line before its first semicolon outside a string
\* literal, scanned from position k on; `str` tells whether k is inside a
\* string literal.
RECURSIVE CommentAt(_, _, _)
CommentAt(line, k, str) ==
    IF k > Len(line) THEN k
    ELSE IF str
    THEN IF line[k] = "\\" THEN CommentAt(line, k + 2, TRUE)
         ELSE CommentAt(line, k + 1, line[k] # "\"")
    ELSE IF line[k] = ";" THEN k
    ELSE CommentAt(line, k + 1, line[k] = "\"")
BeforeComment(line) ==
    SubSeq(line, 1, IF CommentAt(line, 1, FALSE) > Len(line) THEN Len(line)
                    ELSE CommentAt(line, 1, FALSE) - 1)

\* C28: a semicolon outside a string literal ends tokenization: the tokens
\* of each line read are the tokens of the text before that semicolon,
\* whatever character precedes it.
C28_SemicolonEndsLine ==
    last.op = "parse" =>
       \A i \in 1..(Len(last.p.lines) - Len(last.res.p.lines)) :
          tokenize(last.p.lines[i]) = tokenize(BeforeComment(last.p.lines[i]))


(***************************************************************************)
(* Properties of the loop over a loaded file                               *)
(***************************************************************************)
\* C30: the loop over the lines of a loaded file (scheme_load) never reads a
\* line from the keyboard, also when the last expression of the file ends on
\* its last line and when the file is empty.
C30_FileLoopNeverReadsKeyboard ==
    (mode.report_errors /\ last.op = "read_input")
       => ~(last.kind = "keyboard" /\ last.input)


(***************************************************************************)
(* Properties of the arithmetic primitives                                 *)
(***************************************************************************)
\* C22: an arithmetic primitive whose result is integer-valued returns an
\* Integer and never an integral Real.
C22_IntegralResultsAreIntegers ==
    \A i \in 1..Len(out) :
       (out[i].kind = "value" /\ out[i].expr \in ArithForms)
          => ~(IsFloat(out[i].val) /\ out[i].val[3] = 0)


(***************************************************************************)
(* Properties of quasiquote                                                *)
(***************************************************************************)
Unquote(t) == is_scheme_pair(t) /\ t[2] = Sym("unquote") /\ PairLen(t) = 2
Quasi(t) == is_scheme_pair(t) /\ t[2] = Sym("quasiquote") /\ PairLen(t) = 2

\* The template t with each (unquote Counted) at which the depth d drops to
\* 0 replaced by 7, and the number of these subforms.
RECURSIVE Expand(_, _), Unquoted(_, _)
Expand(t, d) ==
    IF ~is_scheme_pair(t) THEN t
    ELSE IF Unquote(t)
    THEN IF d = 1 THEN Integer(7)
         ELSE L(<<Sym("unquote"), Expand(t[3][2], d - 1)>>)
    ELSE IF Quasi(t) THEN L(<<Sym("quasiquote"), Expand(t[3][2], d + 1)>>)
    ELSE Pair(Expand(t[2], d), Expand(t[3], d))
Unquoted(t, d) ==
    IF ~is_scheme_pair(t) THEN 0
    ELSE IF Unquote(t) THEN IF d = 1 THEN 1 ELSE Unquoted(t[3][2], d - 1)
    ELSE IF Quasi(t) THEN Unquoted(t[3][2], d + 1)
    ELSE Unquoted(t[2], d) + Unquoted(t[3], d)

\* C23: (quasiquote T) returns T with each (unquote e) at which the depth
\* drops to 0 replaced by the value of e, evaluated once, and every other
\* part structurally unchanged and unevaluated.
C23_QuasiquoteDepth ==
    \A t \in Templates(1, MaxNest) : \A i \in Runs(Quasiquote(t)) :
       Finished(i) =>
          /\ Yields(i, Expand(t, 1))
          /\ frames[1]["hp"] = Integer(Unquoted(t, 1))


(***************************************************************************)
(* Properties of cond                                                      *)
(***************************************************************************)
\* The clause that is selected: the first whose predicate is true, or
\* Len(cs) + 1 if there is none.
Selected(cs) ==
    CHOOSE k \in 1..(Len(cs) + 1) :
       /\ \A i \in 1..(k - 1) : ~cs[i].p
       /\ k <= Len(cs) => cs[k].p

\* The value of the form: of the last action of the selected clause, or its
\* predicate if it has no action; of the else clause if no clause is
\* selected, or `none` if there is no else clause.
CondValue(cs, els, none) ==
    LET k == Selected(cs) IN
    IF k <= Len(cs)
    THEN IF cs[k].n = 0 THEN Integer(k) ELSE Integer((10 * k) + cs[k].n)
    ELSE IF els THEN Integer(90) ELSE none

\* What the form has logged, latest first: the predicates up to the selected
\* clause, each once and in order, then the actions of that clause.
CondLog(cs, els) ==
    LET k == Selected(cs)
        preds == [i \in 1..(IF k <= Len(cs) THEN k ELSE Len(cs))
                    |-> Integer(10 * i)]
        acts == IF k <= Len(cs)
                THEN [j \in 1..cs[k].n |-> Integer((10 * k) + j)]
                ELSE IF els THEN <<Integer(90)>> ELSE <<>>
        all == preds \o acts
    IN  L([j \in 1..Len(all) |-> all[Len(all) + 1 - j]])

\* The forms of the cond scenario, each with the value it has if a form in
\* which no clause is selected yields `none`, and with what it logs.
CondRuns(none) ==
    {[expr |-> Cond(cs, els), val |-> CondValue(cs, els, none),
      log |-> CondLog(cs, els)] : cs \in CondClauses, els \in BOOLEAN}
NestedIfRuns(alt, none) ==
    {[expr |-> NestedIf(cs, 1, els, alt), val |-> CondValue(cs, els, none),
      log |-> CondLog(cs, els)] : cs \in WithBodies, els \in BOOLEAN}
CondAsIf == CondRuns(Bool(FALSE))
CondAsIfUndefined ==
    CondRuns(None) \cup NestedIfRuns(<<Sym("undefined")>>, None)
       \cup NestedIfRuns(<<>>, Bool(FALSE))

\* Every finished run of a form of the table has the table's value and log.
AsExpected(table) ==
    scen = "cond" =>
       \A i \in 1..Len(out) : \A r \in table :
          (out[i].expr = r.expr /\ Finished(i)) =>
             Yields(i, r.val) /\ frames[1]["log"] = r.log

\* C24 as stated: a cond form yields the value and the side effects of its
\* nested-if desugaring in which the innermost if has no alternative when
\* there is no else clause, an if that yields false when no predicate holds.
C24_CondIsNestedIf == AsExpected(CondAsIf)

\* C24, amended: a cond form yields the value and the side effects of the
\* nested if whose innermost alternative, when there is no else clause, is
\* the unspecified value; the clauses are tried in order, no predicate after
\* the selected clause is evaluated, and a clause with only a predicate
\* returns the predicate's value after evaluating it once.  The nested if
\* without that alternative yields false when no predicate holds.
C24_CondIsNestedIfUndefined == AsExpected(CondAsIfUndefined)

\* A cond whose first predicate is false and whose second clause has two
\* actions has returned the second action's value, having logged the two
\* predicates and the two actions in order and nothing of the else clause.
C24_Witness ==
    /\ \E i \in Runs(Cond(<<[p |-> FALSE, n |-> 1], [p |-> TRUE, n |-> 2]>>,
                          TRUE)) : Yields(i, Integer(22))
    /\ frames[1]["log"]
          = L(<<Integer(22), Integer(21), Integer(20), Integer(10)>>)


(***************************************************************************)
(* Order of evaluation                                                     *)
(***************************************************************************)
\* The values of the operands, and the scheme list of the first k numbers of
\* a sequence of logged numbers, latest first.
OperandValues(bs) ==
    L([i \in 1..Len(bs) |-> IF bs[i] THEN Integer(100) ELSE Integer(i)])
LogOf(seen, k) == L([j \in 1..k |-> Integer(seen[k + 1 - j])])

\* The forms of the order scenario, each with its value, with the numbers it
\* logs in order, and with how many of them are logged before a frame is
\* made for the body.
OrderRuns ==
    UNION {{[expr |-> Application(Sym("list"), bs), val |-> OperandValues(bs),
             seen |-> [j \in 1..(Len(bs) + 1) |-> j - 1],
             first |-> Len(bs) + 1],
            [expr |-> Application(LambdaExpr(Len(bs)), bs),
             val |-> OperandValues(bs),
             seen |-> [j \in 1..(Len(bs) + 1) |-> j - 1] \o <<9>>,
             first |-> Len(bs) + 1],
            [expr |-> Let(bs), val |-> OperandValues(bs),
             seen |-> [j \in 1..Len(bs) |-> j] \o <<9>>,
             first |-> Len(bs)]} : bs \in OperandLists}

\* C25: at every moment of the evaluation of an application, what has been
\* evaluated is the operator, then the operands once each from left to
\* right, and only then the body; in a let the initializers from left to
\* right, then the body; no frame is made before the last operand or
\* initializer has been evaluated, and every initializer has the value it
\* has in the outer environment.
C25_LeftToRight ==
    scen = "order" =>
       \A i \in 1..Len(out) : \A r \in OrderRuns :
          out[i].expr = r.expr =>
             /\ \E k \in 0..Len(r.seen) :
                   /\ frames[1]["log"] = LogOf(r.seen, k)
                   /\ Len(frames) > 1 => k >= r.first
             /\ Finished(i) =>
                   /\ Yields(i, r.val)
                   /\ frames[1]["log"] = LogOf(r.seen, Len(r.seen))

\* (let ((a 1) (b a)) (list a b)) has returned (1 100), the second
\* initializer having seen the outer a, after logging 1, 2 and 9 in order
\* and making one frame.
C25_Witness ==
    /\ \E i \in Runs(Let(<<FALSE, TRUE>>)) :
          Yields(i, L(<<Integer(1), Integer(100)>>))
    /\ frames[1]["log"] = L(<<Integer(9), Integer(2), Integer(1)>>)
    /\ Len(frames) = 2


(***************************************************************************)
(* Stream primitives                                                       *)
(***************************************************************************)
\* What the primitive returns on the stream of 1..k.
StreamValue(op, k) ==
    CASE op = "stream-map" -> L([i \in 1..k |-> Integer(i + 1)])
      [] op = "stream-filter" -> IF k >= 2 THEN L(<<Integer(2)>>) ELSE nil
      [] op = "stream-reduce" -> Integer((k * (k + 1)) \div 2)

\* The forms of the scenario on the streams of 1..k: whether forcing the
\* tails ends with the empty list, the value then, and the tails 1..k.
StreamRuns ==
    {[expr |-> StreamForm(op, StreamFrom(1, k, end)), op |-> op,
      ends |-> end = nil, val |-> StreamValue(op, k),
      log |-> LogOf([j \in 1..k |-> j], k)] :
        op \in StreamOps, k \in 1..MaxN, end \in {nil, Integer(0)}}

\* C29: stream-map, stream-filter and stream-reduce return a value only on
\* a stream whose successive tails end with the empty list, and then every
\* tail has been forced once, in order, and the result of stream-map and
\* stream-filter is a proper list and no stream pair; on such a stream they
\* do return, and on ones they never return a value: the host's recursion
\* limit ends the run.
C29_StreamsForcedWhole ==
    scen = "whole" =>
       \A i \in 1..Len(out) :
          /\ \A r \in StreamRuns :
                out[i].expr = r.expr =>
                   /\ out[i].kind = "value" =>
                         /\ r.ends
                         /\ out[i].val = r.val
                         /\ frames[1]["log"] = r.log
                         /\ r.op # "stream-reduce" =>
                               /\ is_scheme_list(out[i].val)
                               /\ ~is_stream_pair(out[i].val)
                   /\ (Finished(i) /\ r.ends) => out[i].kind = "value"
          /\ \A op \in StreamOps :
                (out[i].expr = StreamForm(op, Sym("ones")) /\ Finished(i)) =>
                   /\ out[i].kind = "error"
                   /\ out[i].val[2] = "RecursionError"

\* stream-map has returned (2 3) on the stream of 1 and 2, both tails
\* forced.
C29_Witness ==
    /\ \E i \in Runs(StreamForm("stream-map", StreamFrom(1, 2, nil))) :
          Yields(i, L(<<Integer(2), Integer(3)>>))
    /\ frames[1]["log"] = L(<<Integer(2), Integer(1)>>)

=============================================================================
